---- MODULE Spec2Model ----
(***************************************************************************)
(* Shot-feasibility solver, grid scanners and page handlers of the shot     *)
(* visualizer.                                                             *)
(*                                                                         *)
(* Numbers.  The program computes with IEEE doubles.  Here every number is *)
(* a fixed-point integer counting millionths: the real value x is the      *)
(* integer x * One.  Sums and comparisons are exact; a product or quotient *)
(* is rounded to the nearest millionth (MulS, DivS); sin, cos, atan2 and   *)
(* sqrt are computed by series to that resolution.  Metres, seconds and    *)
(* radians are the units, as in the source.                                *)
(***************************************************************************)
EXTENDS Integers, Sequences, FiniteSets, TLC

\* ------------------------------------------------------------------------
\*  State
\*
\*  config    the caller's configuration object (Params)
\*  robot     the field position <<fx, fy>> the solver is asked about
\*  call      the last solver call: its function and arguments
\*  ret       the value that call returned
\*  memo      the value the first evaluateShot call at `robot' returned; in a
\*            comparison of neighbour orders, the grid computeHeatmap returned
\*            with the order of the code
\*  history   what has been called since construction: "none" before the
\*            first evaluateShot call, "first" after it, "other" once another
\*            entry point has been called since, "again" once evaluateShot
\*            has been called after that
\*  phase     "session" while the solver entry points are called directly,
\*            "chart" while computeRangeChart runs, or the position of
\*            computeHeatmap ("phase1" .. "done")
\*  cell      computeRangeChart's position: the number of cells evaluated
\*  data      computeHeatmap's HeatmapData
\*  bfsQueue, head   computeHeatmap's propagation queue and its read index
\*  row, col  computeHeatmap's loop indices r and c
\*  origin    for each cell, the phase of computeHeatmap that wrote it last
\*  attempts  for each cell, the evaluations computeHeatmap has made of it, in
\*            order: the phase, and the neighbour's result used as the hint
\*            (Null for a full evaluation)
\*  spacing   computeHeatmap's seedSpacing, 0 until it is computed
\*  order     the order in which the propagation tries the four neighbours of
\*            a parent: the indices into DR and DC, pass by pass
\*  locals    the local variables of the function that is stepped through
\*            one loop pass at a time (refineShot, simulateToRange,
\*            computeRangeChart), with fn its name and pc its position
\*  state     the exported state object of the page (state.ts)
\*  dom       what the page's handlers read and write of the document: the
\*            fixedSpeed slider, the active view button, the classes of the
\*            modal's panels, the backdrop's display, the status text, the
\*            number of timers set, and the shot last handed to a renderer
\*            by an animation-frame callback
\*  tasks     the callbacks the browser holds, oldest first: timeouts and
\*            animation-frame callbacks
\* ------------------------------------------------------------------------

VARIABLES config, robot, call, ret, memo, history, phase, cell, data, bfsQueue, head, row, col, origin, attempts, order, spacing, locals, state, dom, tasks

vars == <<config, robot, call, ret, memo, history, phase, cell, data, bfsQueue, head, row, col, origin, attempts, order, spacing, locals, state, dom, tasks>>

\* ------------------------------------------------------------------------
\*  Calls
\*
\*  Call("F", <<a1, ..., an>>) is F(a1, ..., an).  The functions of the
\*  program call one another through Call, which refers to the definition of
\*  the function called where a plain application would unfold it again.
\*  Call is defined after the functions it names.
\* ------------------------------------------------------------------------

RECURSIVE Call(_, _)

\* the arithmetic of the program, on fixed-point numbers: *, /, Math.sqrt,
\* Math.sin, Math.cos and Math.atan2
MulS(a, b) == Call("Product", <<a, b>>)
DivS(a, b) == Call("Quotient", <<a, b>>)
Sqrt(a) == Call("SquareRoot", <<a>>)
Sin(x) == Call("Sine", <<x>>)
Cos(x) == Call("Cosine", <<x>>)
Atan2(y, x) == Call("ArcTan2", <<y, x>>)

\* ------------------------------------------------------------------------
\*  Fixed-point arithmetic
\* ------------------------------------------------------------------------

One == 1000 * 1000
Kilo == 10 * 10 * 10

Abs(x) == IF x < 0 THEN -x ELSE x

Min(a, b) == IF a <= b THEN a ELSE b

Max(a, b) == IF a >= b THEN a ELSE b

\* a * b for magnitudes a, b >= 0, rounded to the nearest millionth
MulU(a, b) ==
  LET aH == a \div Kilo
      aL == a % Kilo
      bH == b \div Kilo
      bL == b % Kilo
  IN  aH * bH + ((aH * bL + aL * bH) + ((aL * bL + 500 * Kilo) \div Kilo)) \div Kilo

Product(a, b) ==
  IF (a < 0) = (b < 0) THEN MulU(Abs(a), Abs(b)) ELSE -MulU(Abs(a), Abs(b))

\* six decimal digits of the fraction r / b, 0 <= r < b
RECURSIVE FracDigits(_, _, _, _)
FracDigits(r, b, q, n) ==
  IF n = 0 THEN (IF 2 * r >= b THEN q + 1 ELSE q)
  ELSE FracDigits((r * 10) % b, b, q * 10 + (r * 10) \div b, n - 1)

\* a / b for magnitudes a >= 0, b > 0, rounded to the nearest millionth
DivU(a, b) == FracDigits(a % b, b, a \div b, 6)

Quotient(a, b) ==
  IF (a < 0) = (b < 0) THEN DivU(Abs(a), Abs(b)) ELSE -DivU(Abs(a), Abs(b))

\* integer square root (floor) by bisection on bits
RECURSIVE ISqrtBits(_, _, _)
ISqrtBits(n, res, bit) ==
  IF bit = 0 THEN res
  ELSE IF (res + bit) * (res + bit) <= n
       THEN ISqrtBits(n, res + bit, bit \div 2)
       ELSE ISqrtBits(n, res, bit \div 2)

ISqrt(n) == ISqrtBits(n, 0, 32768)

\* Math.sqrt: sqrt(a) = isqrt(a) * 1000, then two Newton corrections
SquareRoot(a) ==
  IF a <= 0 THEN 0
  ELSE LET x0 == Max(1, ISqrt(a) * Kilo)
           x1 == (x0 + DivS(a, x0)) \div 2
           x2 == (x1 + DivS(a, x1) + 1) \div 2
       IN  x2

PI == 3141593
HalfPI == 1570796

\* Taylor terms of sin / cos: term(k+1) = -term(k) * x^2 / ((n+1)(n+2))
RECURSIVE TaylorSum(_, _, _, _, _)
TaylorSum(term, x2, n, acc, left) ==
  IF left = 0 \/ term = 0 THEN acc
  ELSE LET next == -(MulS(term, x2) \div ((n + 1) * (n + 2)))
       IN  TaylorSum(next, x2, n + 2, acc + next, left - 1)

\* Math.sin, Math.cos for |x| <= PI
Sine(x) == TaylorSum(x, MulS(x, x), 1, x, 9)

Cosine(x) == TaylorSum(One, MulS(x, x), 0, One, 9)

\* atan of a magnitude 0 <= z <= 0.2 by its series z - z^3/3 + z^5/5 ...
RECURSIVE AtanSeries(_, _, _, _, _)
AtanSeries(pow, z2, n, acc, left) ==
  IF left = 0 \/ pow = 0 THEN acc
  ELSE LET next == -MulS(pow, z2)
       IN  AtanSeries(next, z2, n + 2, acc + next \div (n + 2), left - 1)

\* halve the angle: atan z = 2 atan( z / (1 + sqrt(1 + z^2)) )
AtanHalf(z) == DivS(z, One + Sqrt(One + MulS(z, z)))

\* atan of a magnitude 0 <= z <= 1
AtanUnit(z) ==
  LET z1 == AtanHalf(z)
      z2 == AtanHalf(z1)
      z3 == AtanHalf(z2)
  IN  8 * AtanSeries(z3, MulS(z3, z3), 1, z3, 6)

\* atan of a magnitude y / x with x, y >= 0, not both 0
AtanQuad(y, x) ==
  IF y <= x THEN AtanUnit(DivS(y, x)) ELSE HalfPI - AtanUnit(DivS(x, y))

\* Math.atan2(y, x)
ArcTan2(y, x) ==
  IF x = 0 /\ y = 0 THEN 0
  ELSE LET a == AtanQuad(Abs(y), Abs(x))
           b == IF x < 0 THEN PI - a ELSE a
       IN  IF y < 0 THEN -b ELSE b

\* ------------------------------------------------------------------------
\*  JavaScript values: undefined, null, or an object
\* ------------------------------------------------------------------------

UNCOMPUTED == [tag |-> "undefined"]

Null == [tag |-> "null"]

Truthy(v) == v.tag = "object"

\* ------------------------------------------------------------------------
\*  Global constants (constants.ts)
\* ------------------------------------------------------------------------

FIELD_LENGTH == 16540 * Kilo
FIELD_WIDTH == 8070 * Kilo
GRAVITY == 9800 * Kilo
DISPLAY_BUFFER == 1500 * Kilo
BALL_MASS == 2268 * 100
BALL_DIAMETER == 150 * Kilo
DRAG_COEFFICIENT == 470 * Kilo
AIR_DENSITY == 1225 * Kilo

DRAG_K ==
  DivS(MulS(MulS(MulS(MulS(One \div 2, AIR_DENSITY), DRAG_COEFFICIENT), PI),
            MulS(BALL_DIAMETER \div 2, BALL_DIAMETER \div 2)),
       BALL_MASS)

dragFromParams(p) == [enabled |-> p.dragEnabled, k |-> DRAG_K]

\* degrees to radians, deg * Math.PI / 180, and back, rad * 180 / Math.PI
DegToRad(deg) == DivS(MulS(deg, PI), 180 * One)

RadToDeg(rad) == DivS(rad * 180, PI)

\* ------------------------------------------------------------------------
\*  simulateToRange: RK4 integration with quadratic drag
\* ------------------------------------------------------------------------

DT == 2 * Kilo
MAX_T == 5 * One

\* The loop of simulateToRange is bounded by t < MAX_T, where t is a sum of
\* 0.002s, each addition rounded to a double.  That sum is kept to the last
\* bit: a time is <<l2, l1, l0>>, three limbs of 24 bits counting units of
\* 2^-61 s, the unit of the last place of the double 0.002.
Limb == 4096 * 4096

\* the double nearest 0.002, 0x10624DD2F1A9FC units
DTBits == <<16, 6442450, 15837692>>

\* 5.0
MaxTBits == <<40960, 0, 0>>

RECURSIVE Log2Floor(_)
Log2Floor(n) == IF n <= 1 THEN 0 ELSE 1 + Log2Floor(n \div 2)

RECURSIVE Pow2(_)
Pow2(n) == IF n = 0 THEN 1 ELSE 2 * Pow2(n - 1)

\* the limbs <<l2, l1, l0>> with their carries taken up
Carried(l2, l1, l0) ==
  <<l2 + (l1 + l0 \div Limb) \div Limb, (l1 + l0 \div Limb) % Limb, l0 % Limb>>

\* a + b in double arithmetic: the exact sum rounded to 53 significant bits,
\* to nearest, ties to even (the sums here stay below 8 s, which keeps the
\* bits rounded away within the lowest limb)
AddDouble(a, b) ==
  LET sum == Carried(a[1] + b[1], a[2] + b[2], a[3] + b[3])
      ulp == Pow2(IF sum[1] >= 32 THEN Log2Floor(sum[1]) - 4 ELSE 0)
      r == sum[3] % ulp
      q == sum[3] \div ulp
      up == 2 * r > ulp \/ (2 * r = ulp /\ q % 2 = 1)
  IN  Carried(sum[1], sum[2], sum[3] - r + (IF up THEN ulp ELSE 0))

\* a < b
LessDouble(a, b) ==
  \/ a[1] < b[1]
  \/ a[1] = b[1] /\ a[2] < b[2]
  \/ a[1] = b[1] /\ a[2] = b[2] /\ a[3] < b[3]

\* derivative of the velocity part of the state: [dvx, dvy, dvz]
deriv(vx, vy, vz, k) ==
  LET speed == Sqrt(MulS(vx, vx) + MulS(vy, vy) + MulS(vz, vz))
      drag == MulS(k, speed)
  IN  [x |-> vx, y |-> vy, z |-> vz,
       vx |-> -MulS(drag, vx),
       vy |-> -MulS(drag, vy),
       vz |-> -GRAVITY - MulS(drag, vz)]

\* DT / 6 * (d1 + 2 d2 + 2 d3 + d4)
RK4Sum(d1, d2, d3, d4) == MulS(DT, d1 + 2 * d2 + 2 * d3 + d4) \div 6

\* one RK4 step from state s (fields x y z vx vy vz t apexZ ret done, and
\* tBits, the time t to the last bit)
RK4Step(s, k) ==
  LET d1 == Call("deriv", <<s.vx, s.vy, s.vz, k>>)
      d2 == Call("deriv", <<s.vx + MulS(d1.vx, DT) \div 2, s.vy + MulS(d1.vy, DT) \div 2,
                  s.vz + MulS(d1.vz, DT) \div 2, k>>)
      d3 == Call("deriv", <<s.vx + MulS(d2.vx, DT) \div 2, s.vy + MulS(d2.vy, DT) \div 2,
                  s.vz + MulS(d2.vz, DT) \div 2, k>>)
      d4 == Call("deriv", <<s.vx + MulS(d3.vx, DT), s.vy + MulS(d3.vy, DT),
                  s.vz + MulS(d3.vz, DT), k>>)
      z1 == s.z + RK4Sum(d1.z, d2.z, d3.z, d4.z)
  IN  [x  |-> s.x + RK4Sum(d1.x, d2.x, d3.x, d4.x),
       y  |-> s.y + RK4Sum(d1.y, d2.y, d3.y, d4.y),
       z  |-> z1,
       vx |-> s.vx + RK4Sum(d1.vx, d2.vx, d3.vx, d4.vx),
       vy |-> s.vy + RK4Sum(d1.vy, d2.vy, d3.vy, d4.vy),
       vz |-> s.vz + RK4Sum(d1.vz, d2.vz, d3.vz, d4.vz),
       t  |-> s.t + DT,
       tBits |-> AddDouble(s.tBits, DTBits),
       apexZ |-> IF z1 > s.apexZ THEN z1 ELSE s.apexZ,
       ret |-> s.ret, done |-> s.done]

\* the state interpolated between the previous state ps and s at x = range
Interpolate(ps, s, range) ==
  LET frac == IF ps.x = s.x THEN 0 ELSE DivS(range - ps.x, s.x - ps.x)
      zi == ps.z + MulS(frac, s.z - ps.z)
  IN  [tag |-> "object",
       z  |-> zi,
       y  |-> ps.y + MulS(frac, s.y - ps.y),
       t  |-> ps.t + MulS(frac, DT),
       vx |-> ps.vx + MulS(frac, s.vx - ps.vx),
       vy |-> ps.vy + MulS(frac, s.vy - ps.vy),
       vz |-> ps.vz + MulS(frac, s.vz - ps.vz),
       apexZ |-> Max(ps.apexZ, zi)]

\* one pass of the while loop; done is set when the function has returned
\* ret (the loop condition failing returns null, as the ground check does)
SimPass(ps, range, shooterZ, k) ==
  IF ~LessDouble(ps.tBits, MaxTBits) THEN [ps EXCEPT !.done = TRUE, !.ret = Null]
  ELSE LET s == Call("RK4Step", <<ps, k>>)
       IN  IF s.z < -shooterZ THEN [s EXCEPT !.done = TRUE, !.ret = Null]
           ELSE IF s.x >= range
             THEN [s EXCEPT !.done = TRUE, !.ret = Call("Interpolate", <<ps, s, range>>)]
           ELSE s

\* n passes of the while loop from state ps, stopping at the first return;
\* the passes are split in halves to keep the nesting shallow
RECURSIVE SimLoop(_, _, _, _, _)
SimLoop(ps, n, range, shooterZ, k) ==
  IF ps.done \/ n = 0 THEN ps
  ELSE IF n = 1 THEN SimPass(ps, range, shooterZ, k)
  ELSE LET half == SimLoop(ps, n \div 2, range, shooterZ, k)
       IN  IF half.done THEN half
           ELSE SimLoop(half, n - n \div 2, range, shooterZ, k)

\* let x = 0, y = 0, z = 0; let vx = vx0, vy = vy0, vz = vz0; let t = 0; ...
SimEntered(vx0, vy0, vz0) ==
  [x |-> 0, y |-> 0, z |-> 0, vx |-> vx0, vy |-> vy0, vz |-> vz0,
   t |-> 0, tBits |-> <<0, 0, 0>>, apexZ |-> 0, ret |-> Null, done |-> FALSE]

\* the passes the loop can make: t is within one DT of the number of passes
\* times DT, so the loop condition has failed by pass MAX_T / DT + 3
simulateToRange(vx0, vy0, vz0, range, shooterZ, k) ==
  SimLoop(SimEntered(vx0, vy0, vz0), MAX_T \div DT + 3, range, shooterZ, k).ret

\* ------------------------------------------------------------------------
\*  sweepSpeedAndAngle: coarse (speed, angle) search, always in vacuum
\* ------------------------------------------------------------------------

minDescentRate == -(One \div 2)
sweepErrorThreshold == One \div 2
angleStep == 10 * Kilo
Infinity == 2000 * One

\* the candidate against the best so far, with the lower error preferred
\* between two viable candidates instead of the steeper descent
SweepCandidateLowestError(v, angle, best, tangentialVelo, radialVelo, range, heightDiff, shooterZ, ceilingHeight) ==
  LET cosA == Cos(angle)
      sinA == Sin(angle)
      vVert == MulS(v, sinA)
      apex == shooterZ + DivS(MulS(vVert, vVert), 2 * GRAVITY)
      hSpeed == MulS(v, cosA)
      turretAdj == Atan2(-tangentialVelo, hSpeed)
      effSpeed == MulS(hSpeed, Cos(turretAdj)) + radialVelo
      t == DivS(range, effSpeed)
      h == MulS(vVert, t) - MulS(MulS(GRAVITY \div 2, t), t)
      err == Abs(h - heightDiff)
      vyTarget == vVert - MulS(GRAVITY, t)
      desc == vyTarget < minDescentRate
      newViable == err < sweepErrorThreshold
      bestViable == best.error < sweepErrorThreshold
      shouldReplace ==
        \/ ~best.found
        \/ (newViable /\ ~bestViable)
        \/ (newViable /\ bestViable /\ err < best.error)
        \/ (~newViable /\ ~bestViable /\ err < best.error)
  IN  IF apex > ceilingHeight THEN [best |-> best, skipped |-> TRUE]
      ELSE IF effSpeed <= One \div 10 THEN [best |-> best, skipped |-> TRUE]
      ELSE IF desc
        THEN IF shouldReplace
             THEN [best |-> [speed |-> v, angle |-> angle, error |-> err,
                             vy |-> vyTarget, found |-> TRUE],
                   skipped |-> FALSE]
             ELSE [best |-> best, skipped |-> FALSE]
        ELSE IF ~best.found /\ err < best.error
             THEN [best |-> [best EXCEPT !.speed = v, !.angle = angle,
                                         !.error = err],
                   skipped |-> FALSE]
             ELSE [best |-> best, skipped |-> FALSE]

\* one (v, angle) candidate against the best so far (fields speed angle
\* error vy found); skipped is TRUE when the candidate hit a `continue'
SweepCandidate(v, angle, best, tangentialVelo, radialVelo, range, heightDiff, shooterZ, ceilingHeight) ==
  LET cosA == Cos(angle)
      sinA == Sin(angle)
      vVert == MulS(v, sinA)
      apex == shooterZ + DivS(MulS(vVert, vVert), 2 * GRAVITY)
      hSpeed == MulS(v, cosA)
      turretAdj == Atan2(-tangentialVelo, hSpeed)
      effSpeed == MulS(hSpeed, Cos(turretAdj)) + radialVelo
      t == DivS(range, effSpeed)
      h == MulS(vVert, t) - MulS(MulS(GRAVITY \div 2, t), t)
      err == Abs(h - heightDiff)
      vyTarget == vVert - MulS(GRAVITY, t)
      desc == vyTarget < minDescentRate
      newViable == err < sweepErrorThreshold
      bestViable == best.error < sweepErrorThreshold
      shouldReplace ==
        \/ ~best.found
        \/ (newViable /\ ~bestViable)
        \/ (newViable /\ bestViable /\ vyTarget < best.vy)
        \/ (~newViable /\ ~bestViable /\ err < best.error)
  IN  IF apex > ceilingHeight THEN [best |-> best, skipped |-> TRUE]
      ELSE IF effSpeed <= One \div 10 THEN [best |-> best, skipped |-> TRUE]
      ELSE IF desc
        THEN IF shouldReplace
             THEN [best |-> [speed |-> v, angle |-> angle, error |-> err,
                             vy |-> vyTarget, found |-> TRUE],
                   skipped |-> FALSE]
             ELSE [best |-> best, skipped |-> FALSE]
        ELSE IF ~best.found /\ err < best.error
             THEN [best |-> [best EXCEPT !.speed = v, !.angle = angle,
                                         !.error = err],
                   skipped |-> FALSE]
             ELSE [best |-> best, skipped |-> FALSE]

\* cx: the arguments of sweepSpeedAndAngle with minAngle, maxAngle in radians
\* and speedStep.  The angle loop of speed v, restricted to its passes lo..hi:
\* pass i has a = minAngle + i * angleStep; st.brk is set by the `break' of a
\* fixed angle.  The passes are split in halves to keep the nesting shallow.
RECURSIVE SweepAngles(_, _, _, _, _)
SweepAngles(cx, v, lo, hi, st) ==
  IF st.brk \/ lo > hi THEN st
  ELSE IF lo = hi
    THEN LET c == Call("SweepCandidate", <<v, Min(cx.minAngle + lo * angleStep, cx.maxAngle), st.best, cx.tangentialVelo, cx.radialVelo, cx.range, cx.heightDiff, cx.shooterZ, cx.ceilingHeight>>)
         IN  [best |-> c.best,
              brk |-> ~c.skipped /\ cx.maxAngle - cx.minAngle < 2 * Kilo]
  ELSE LET mid == (lo + hi) \div 2
           left == SweepAngles(cx, v, lo, mid, st)
       IN  IF left.brk THEN left ELSE SweepAngles(cx, v, mid + 1, hi, left)

\* the number of passes of the angle loop: a <= maxAngle + 0.001
AnglePasses(cx) ==
  IF cx.minAngle > cx.maxAngle + Kilo THEN 0
  ELSE (cx.maxAngle + Kilo - cx.minAngle) \div angleStep + 1

\* the speed loop restricted to si in lo..hi; the `break' of the angle loop
\* leaves that loop only, so each speed starts with brk cleared
RECURSIVE SweepSpeeds(_, _, _, _)
SweepSpeeds(cx, lo, hi, st) ==
  IF st.brk \/ lo > hi THEN st
  ELSE IF lo = hi
    THEN [SweepAngles(cx, cx.minSpeed + lo * cx.speedStep, 0, AnglePasses(cx) - 1, st) EXCEPT !.brk = FALSE]
  ELSE LET mid == (lo + hi) \div 2
           left == SweepSpeeds(cx, lo, mid, st)
       IN  IF left.brk THEN left ELSE SweepSpeeds(cx, mid + 1, hi, left)

sweepSpeedAndAngle(minSpeed, maxSpeed, speedSteps, minAngleDeg, maxAngleDeg, tangentialVelo, radialVelo, range, heightDiff, shooterZ, ceilingHeight) ==
  LET minAngle == DegToRad(minAngleDeg)
      maxAngle == DegToRad(maxAngleDeg)
      speedStep == IF speedSteps > 1
                   THEN DivS(maxSpeed - minSpeed, (speedSteps - 1) * One)
                   ELSE 0
      cx == [minSpeed |-> minSpeed, speedStep |-> speedStep,
             minAngle |-> minAngle, maxAngle |-> maxAngle,
             tangentialVelo |-> tangentialVelo, radialVelo |-> radialVelo,
             range |-> range, heightDiff |-> heightDiff,
             shooterZ |-> shooterZ, ceilingHeight |-> ceilingHeight]
      best0 == [speed |-> (minSpeed + maxSpeed) \div 2,
                angle |-> (minAngle + maxAngle) \div 2,
                error |-> Infinity, vy |-> 0, found |-> FALSE]
      best == SweepSpeeds(cx, 0, speedSteps - 1, [best |-> best0, brk |-> FALSE]).best
  IN  [speed |-> best.speed, angle |-> best.angle, error |-> best.error]

\* ------------------------------------------------------------------------
\*  evalResiduals: f1 = height error, f2 = lateral drift at the target
\* ------------------------------------------------------------------------

evalResiduals(speed, theta, phi, radialVelo, tangentialVelo, range, heightDiff, drag) ==
  LET cosT == Cos(theta)
      sinT == Sin(theta)
      hSpeed == MulS(speed, cosT)
      effRadSpeed == MulS(hSpeed, Cos(phi)) + radialVelo
      lateralVelo == MulS(hSpeed, Sin(phi)) + tangentialVelo
      vLaunch == MulS(speed, sinT)
      sim == Call("simulateToRange", <<effRadSpeed, lateralVelo, vLaunch, range,
                             1000 * One, drag.k>>)
      shotTime == DivS(range, effRadSpeed)
      height == MulS(vLaunch, shotTime)
                  - MulS(MulS(GRAVITY \div 2, shotTime), shotTime)
  IN  IF effRadSpeed <= One \div 10 THEN Null
      ELSE IF drag.enabled
        THEN IF ~Truthy(sim) THEN Null
             ELSE [tag |-> "object", f1 |-> sim.z - heightDiff, f2 |-> sim.y,
                   effRadSpeed |-> effRadSpeed, shotTime |-> sim.t,
                   vz |-> sim.vz]
        ELSE [tag |-> "object", f1 |-> height - heightDiff,
              f2 |-> MulS(lateralVelo, shotTime),
              effRadSpeed |-> effRadSpeed, shotTime |-> shotTime,
              vz |-> vLaunch - MulS(GRAVITY, shotTime)]

\* ------------------------------------------------------------------------
\*  refineShot: joint Newton refinement of (theta, phi)
\* ------------------------------------------------------------------------

delta == 100
phiMin == -HalfPI + 50 * Kilo
phiMax == HalfPI - 50 * Kilo

\* cx: the arguments of refineShot (speed tangentialVelo radialVelo range
\* heightDiff fixedTheta drag) and its clamps (clampMin clampMax)
Residuals(cx, theta, phi) ==
  Call("evalResiduals", <<cx.speed, theta, phi, cx.radialVelo, cx.tangentialVelo,
                cx.range, cx.heightDiff, cx.drag>>)

SeedPhi(cx, theta) == Atan2(-cx.tangentialVelo, MulS(cx.speed, Cos(theta)))

\* 1D Newton on phi only; st has fields theta phi shotTime lastVz
NewtonStepPhi(cx, st, r0) ==
  LET rPhi == Call("Residuals", <<cx, st.theta, st.phi + delta>>)
      df2_dphi == DivS(rPhi.f2 - r0.f2, delta)
      phi1 == st.phi - DivS(r0.f2, df2_dphi)
  IN  IF ~Truthy(rPhi) THEN [st |-> st, brk |-> TRUE]
      ELSE IF Abs(df2_dphi) < 100 THEN [st |-> st, brk |-> TRUE]
      ELSE [st |-> [st EXCEPT !.phi = Max(phiMin, Min(phiMax, phi1))],
            brk |-> FALSE]

\* the 2D Newton step with theta left unclamped
NewtonStep2DUnclamped(cx, st, r0) ==
  LET rTheta == Call("Residuals", <<cx, st.theta + delta, st.phi>>)
      rPhi == Call("Residuals", <<cx, st.theta, st.phi + delta>>)
      df1_dtheta == DivS(rTheta.f1 - r0.f1, delta)
      df1_dphi == DivS(rPhi.f1 - r0.f1, delta)
      df2_dtheta == DivS(rTheta.f2 - r0.f2, delta)
      df2_dphi == DivS(rPhi.f2 - r0.f2, delta)
      det == MulS(df1_dtheta, df2_dphi) - MulS(df1_dphi, df2_dtheta)
      invDet == DivS(One, det)
      dTheta == MulS(invDet, MulS(df2_dphi, r0.f1) - MulS(df1_dphi, r0.f2))
      dPhi == MulS(invDet, MulS(-df2_dtheta, r0.f1) + MulS(df1_dtheta, r0.f2))
  IN  IF ~Truthy(rTheta) \/ ~Truthy(rPhi) THEN [st |-> st, brk |-> TRUE]
      \* |det| < 1e-10 is below the resolution: it is det = 0
      ELSE IF Abs(det) < 1 THEN [st |-> st, brk |-> TRUE]
      ELSE [st |-> [st EXCEPT
                      !.theta = st.theta - dTheta,
                      !.phi = Max(phiMin, Min(phiMax, st.phi - dPhi))],
            brk |-> FALSE]

\* 2D Newton on (theta, phi) with a finite-difference Jacobian
NewtonStep2D(cx, st, r0) ==
  LET rTheta == Call("Residuals", <<cx, st.theta + delta, st.phi>>)
      rPhi == Call("Residuals", <<cx, st.theta, st.phi + delta>>)
      df1_dtheta == DivS(rTheta.f1 - r0.f1, delta)
      df1_dphi == DivS(rPhi.f1 - r0.f1, delta)
      df2_dtheta == DivS(rTheta.f2 - r0.f2, delta)
      df2_dphi == DivS(rPhi.f2 - r0.f2, delta)
      det == MulS(df1_dtheta, df2_dphi) - MulS(df1_dphi, df2_dtheta)
      invDet == DivS(One, det)
      dTheta == MulS(invDet, MulS(df2_dphi, r0.f1) - MulS(df1_dphi, r0.f2))
      dPhi == MulS(invDet, MulS(-df2_dtheta, r0.f1) + MulS(df1_dtheta, r0.f2))
  IN  IF ~Truthy(rTheta) \/ ~Truthy(rPhi) THEN [st |-> st, brk |-> TRUE]
      \* |det| < 1e-10 is below the resolution: it is det = 0
      ELSE IF Abs(det) < 1 THEN [st |-> st, brk |-> TRUE]
      ELSE [st |-> [st EXCEPT
                      !.theta = Max(cx.clampMin, Min(cx.clampMax, st.theta - dTheta)),
                      !.phi = Max(phiMin, Min(phiMax, st.phi - dPhi))],
            brk |-> FALSE]

\* one pass of the body of the inner loop; brk is TRUE when it breaks
NewtonIter(cx, st) ==
  LET r0 == Call("Residuals", <<cx, st.theta, st.phi>>)
      thetaLow == IF cx.fixedTheta THEN st.theta
                  ELSE Max(st.theta - 100 * Kilo, cx.clampMin)
      st1 == [st EXCEPT !.shotTime = r0.shotTime, !.lastVz = r0.vz]
  IN  IF ~Truthy(r0)
        THEN [st |-> [st EXCEPT !.theta = thetaLow, !.phi = Call("SeedPhi", <<cx, thetaLow>>)],
              brk |-> FALSE]
      ELSE IF Abs(r0.f1) < Kilo /\ Abs(r0.f2) < Kilo THEN [st |-> st1, brk |-> TRUE]
      ELSE IF cx.fixedTheta THEN Call("NewtonStepPhi", <<cx, st1, r0>>)
      ELSE Call("NewtonStep2D", <<cx, st1, r0>>)

\* n passes of for (i = 0; i < 25; i++) from st, stopping at the first
\* `break'.  A pass that leaves the state as it found it is repeated as it is
\* by every pass that remains (a pass is a function of cx and st), so the
\* state it leaves is the state all n passes leave.
RECURSIVE InnerLoop(_, _, _)
InnerLoop(cx, n, r) ==
  IF r.brk \/ n = 0 THEN r
  ELSE LET pass == Call("NewtonIter", <<cx, r.st>>)
       IN  IF pass.brk \/ pass.st = r.st THEN pass ELSE InnerLoop(cx, n - 1, pass)

\* for (attempt = 0; attempt < 2; attempt++)
RECURSIVE Attempts(_, _, _)
Attempts(cx, attempt, st) ==
  IF ~(attempt < 2) THEN st
  ELSE LET s1 == InnerLoop(cx, 25, [st |-> st, brk |-> FALSE]).st
           steeper == Min(s1.theta + 150 * Kilo, cx.clampMax)
       IN  IF s1.lastVz < 0 THEN s1
           ELSE IF cx.fixedTheta THEN s1
           ELSE Attempts(cx, attempt + 1,
                         [s1 EXCEPT !.theta = steeper,
                                    !.phi = Call("SeedPhi", <<cx, steeper>>)])

refineShot(speed, initialTheta, tangentialVelo, radialVelo, range, heightDiff, clampMinDeg, clampMaxDeg, fixedTheta, drag) ==
  LET cx == [speed |-> speed, tangentialVelo |-> tangentialVelo,
             radialVelo |-> radialVelo, range |-> range,
             heightDiff |-> heightDiff, fixedTheta |-> fixedTheta,
             drag |-> drag,
             clampMin |-> Max(DegToRad(clampMinDeg), 50 * Kilo),
             clampMax |-> Min(DegToRad(clampMaxDeg), HalfPI - 50 * Kilo)]
      st0 == [theta |-> initialTheta, phi |-> Call("SeedPhi", <<cx, initialTheta>>),
              shotTime |-> 0, lastVz |-> 0]
      st == Attempts(cx, 0, st0)
  IN  [angle |-> st.theta, shotTime |-> st.shotTime, turretAdjRad |-> st.phi]

\* ------------------------------------------------------------------------
\*  validateAndBuildResult: the feasibility gates
\* ------------------------------------------------------------------------

\* a tolerance chosen by the speed mode instead of the angle mode
ToleranceBySpeedMode(p) == IF p.speedMode = "fixed" THEN 150 * Kilo ELSE 50 * Kilo

\* const tolerance = p.angleMode === 'fixed' ? 0.15 : 0.05
Tolerance(p) == IF p.angleMode = "fixed" THEN 150 * Kilo ELSE 50 * Kilo

\* the apex measured from the shooter instead of from the floor
aboveCeilingFromShooter(apexHeight, p) == apexHeight - p.shooterZ > p.ceilingHeight

\* if (apexHeight > p.ceilingHeight) return null
aboveCeiling(apexHeight, p) == apexHeight > p.ceilingHeight

\* the descent threshold taken as a magnitude
tooShallowMagnitude(vyAtTarget, p) == vyAtTarget > -p.maxVyAtTarget

\* if (vyAtTarget > p.maxVyAtTarget) return null
tooShallow(vyAtTarget, p) == vyAtTarget > p.maxVyAtTarget

\* the drift compared with the cap as a signed number
driftsTooFarSigned(lateralDrift, p) == p.maxLateralDrift > 0 /\ lateralDrift > p.maxLateralDrift

\* if (p.maxLateralDrift > 0 && Math.abs(lateralDrift) > p.maxLateralDrift)
driftsTooFar(lateralDrift, p) == p.maxLateralDrift > 0 /\ Abs(lateralDrift) > p.maxLateralDrift

\* the quantities validateAndBuildResult derives from a launch: the radial
\* speed over ground, and (m) the flight measured at the target's range
shotMeasures(speed, angle, turretAdj, range, heightDiff, p, drag) ==
  LET cosA == Cos(angle)
      sinA == Sin(angle)
      hSpeed == MulS(speed, cosA)
      effRadSpeed == MulS(hSpeed, Cos(turretAdj)) + p.radialVelo
      lateralVelo == MulS(hSpeed, Sin(turretAdj)) + p.tangentialVelo
      vLaunch == MulS(speed, sinA)
      sim == Call("simulateToRange", <<effRadSpeed, lateralVelo, vLaunch, range, p.shooterZ, drag.k>>)
      tv == DivS(range, effRadSpeed)
      h == MulS(vLaunch, tv) - MulS(MulS(GRAVITY \div 2, tv), tv)
  IN  [effRadSpeed |-> effRadSpeed,
       simFailed |-> drag.enabled /\ effRadSpeed > One \div 10 /\ ~Truthy(sim),
       m |-> IF effRadSpeed <= One \div 10 THEN Null
             ELSE IF drag.enabled
               THEN IF ~Truthy(sim) THEN Null
                    ELSE [t |-> sim.t, heightError |-> Abs(sim.z - heightDiff),
                          vyAtTarget |-> sim.vz, apexHeight |-> p.shooterZ + sim.apexZ,
                          lateralDrift |-> sim.y, vxAtTarget |-> sim.vx]
             ELSE [t |-> tv, heightError |-> Abs(h - heightDiff),
                   vyAtTarget |-> vLaunch - MulS(GRAVITY, tv),
                   apexHeight |-> p.shooterZ + DivS(MulS(vLaunch, vLaunch), 2 * GRAVITY),
                   lateralDrift |-> MulS(lateralVelo, tv),
                   vxAtTarget |-> effRadSpeed]]

\* the object literal validateAndBuildResult returns
buildResult(speed, angle, turretAdj, range, m) ==
  [tag |-> "object",
   shotSpeed |-> speed,
   hoodAngleDeg |-> RadToDeg(angle),
   flightTime |-> m.t,
   vyAtTarget |-> m.vyAtTarget,
   descentAngleDeg |-> RadToDeg(Atan2(-m.vyAtTarget, m.vxAtTarget)),
   apexHeight |-> m.apexHeight,
   heightError |-> m.heightError,
   lateralDrift |-> m.lateralDrift,
   turretAdjRad |-> turretAdj,
   range |-> range]

validateAndBuildResult(speed, angle, turretAdj, range, heightDiff, p, drag) ==
  LET sm == Call("shotMeasures", <<speed, angle, turretAdj, range, heightDiff, p, drag>>)
      m == sm.m
  IN  IF sm.effRadSpeed <= One \div 10 THEN Null
      ELSE IF sm.simFailed THEN Null
      ELSE IF m.heightError > Tolerance(p) THEN Null
      ELSE IF aboveCeiling(m.apexHeight, p) THEN Null
      ELSE IF tooShallow(m.vyAtTarget, p) THEN Null
      ELSE IF driftsTooFar(m.lateralDrift, p) THEN Null
      ELSE Call("buildResult", <<speed, angle, turretAdj, range, m>>)

\* ------------------------------------------------------------------------
\*  The entry points of the solver
\* ------------------------------------------------------------------------

\* the refined launch returned as a result without the feasibility checks
trySpeedWithNewtonUnchecked(speed, seedAngle, range, heightDiff, p, drag) ==
  LET aMin == IF p.angleMode = "fixed" THEN p.fixedAngle ELSE p.minAngle
      aMax == IF p.angleMode = "fixed" THEN p.fixedAngle ELSE p.maxAngle
      isFixedAngle == p.angleMode = "fixed"
      ref == Call("refineShot", <<speed, IF isFixedAngle THEN DegToRad(aMin) ELSE seedAngle, p.tangentialVelo, p.radialVelo, range, heightDiff, aMin, aMax, isFixedAngle, drag>>)
      sm == Call("shotMeasures", <<speed, ref.angle, ref.turretAdjRad, range, heightDiff, p, drag>>)
  IN  IF sm.effRadSpeed <= One \div 10 \/ sm.simFailed THEN Null
      ELSE Call("buildResult", <<speed, ref.angle, ref.turretAdjRad, range, sm.m>>)

trySpeedWithNewton(speed, seedAngle, range, heightDiff, p, drag) ==
  LET aMin == IF p.angleMode = "fixed" THEN p.fixedAngle ELSE p.minAngle
      aMax == IF p.angleMode = "fixed" THEN p.fixedAngle ELSE p.maxAngle
      isFixedAngle == p.angleMode = "fixed"
      ref == Call("refineShot", <<speed, IF isFixedAngle THEN DegToRad(aMin) ELSE seedAngle, p.tangentialVelo, p.radialVelo, range, heightDiff, aMin, aMax, isFixedAngle, drag>>)
  IN  Call("validateAndBuildResult", <<speed, ref.angle, ref.turretAdjRad, range, heightDiff, p, drag>>)

\* the distance threshold a factor of ten too small
tooCloseTenth(range) == range < 30 * Kilo

\* if (range < 0.3) return null -- too close to target
tooClose(range) == range < 300 * Kilo

RangeTo(fx, fy, p) ==
  LET dx == p.targetX - fx
      dy == p.targetY - fy
  IN  Sqrt(MulS(dx, dx) + MulS(dy, dy))

\* Math.round
Round(v) == (v + One \div 2) \div One

\* the refinement seeded from the result of the previous call, when there is
\* one, instead of from this call's sweep
evaluateShotWarmStart(fx, fy, p) ==
  LET range == RangeTo(fx, fy, p)
      heightDiff == p.targetZ - p.shooterZ
      drag == dragFromParams(p)
      sMin == IF p.speedMode = "fixed" THEN p.fixedSpeed ELSE p.minSpeed
      sMax == IF p.speedMode = "fixed" THEN p.fixedSpeed ELSE p.maxSpeed
      aMin == IF p.angleMode = "fixed" THEN p.fixedAngle ELSE p.minAngle
      aMax == IF p.angleMode = "fixed" THEN p.fixedAngle ELSE p.maxAngle
      speedStepSize == IF p.angleMode = "fixed" /\ p.speedMode # "fixed"
                       THEN 50 * Kilo ELSE 100 * Kilo
      actualSpeedSteps == IF p.speedMode = "fixed" THEN 1
                          ELSE Max(2, Round(DivS(sMax - sMin, speedStepSize)) + 1)
      sweep == Call("sweepSpeedAndAngle", <<sMin, sMax, actualSpeedSteps, aMin, aMax,
                                  p.tangentialVelo, p.radialVelo, range,
                                  heightDiff, p.shooterZ, p.ceilingHeight>>)
  IN  IF tooClose(range) THEN Null
      ELSE IF Truthy(ret)
        THEN Call("trySpeedWithNewton", <<ret.shotSpeed, DegToRad(ret.hoodAngleDeg), range, heightDiff, p, drag>>)
      ELSE Call("trySpeedWithNewton", <<sweep.speed, sweep.angle, range, heightDiff, p, drag>>)

evaluateShot(fx, fy, p) ==
  LET range == RangeTo(fx, fy, p)
      heightDiff == p.targetZ - p.shooterZ
      drag == dragFromParams(p)
      sMin == IF p.speedMode = "fixed" THEN p.fixedSpeed ELSE p.minSpeed
      sMax == IF p.speedMode = "fixed" THEN p.fixedSpeed ELSE p.maxSpeed
      aMin == IF p.angleMode = "fixed" THEN p.fixedAngle ELSE p.minAngle
      aMax == IF p.angleMode = "fixed" THEN p.fixedAngle ELSE p.maxAngle
      speedStepSize == IF p.angleMode = "fixed" /\ p.speedMode # "fixed"
                       THEN 50 * Kilo ELSE 100 * Kilo
      actualSpeedSteps == IF p.speedMode = "fixed" THEN 1
                          ELSE Max(2, Round(DivS(sMax - sMin, speedStepSize)) + 1)
      sweep == Call("sweepSpeedAndAngle", <<sMin, sMax, actualSpeedSteps, aMin, aMax,
                                  p.tangentialVelo, p.radialVelo, range,
                                  heightDiff, p.shooterZ, p.ceilingHeight>>)
  IN  IF tooClose(range) THEN Null
      ELSE Call("trySpeedWithNewton", <<sweep.speed, sweep.angle, range, heightDiff, p, drag>>)

\* the rings of speeds around the hint tried without the bounds checks
RECURSIVE HintRingsUnchecked(_, _, _, _, _, _, _, _, _)
HintRingsUnchecked(d, hintSpeed, hintAngleRad, sMin, sMax, range, heightDiff, p, drag) ==
  IF ~(d <= 800 * Kilo) THEN Null
  ELSE LET lo == hintSpeed - d
           hi == hintSpeed + d
           rlo == IF TRUE
                  THEN Call("trySpeedWithNewton", <<lo, hintAngleRad, range, heightDiff, p, drag>>)
                  ELSE Null
           rhi == IF TRUE
                  THEN Call("trySpeedWithNewton", <<hi, hintAngleRad, range, heightDiff, p, drag>>)
                  ELSE Null
       IN  IF Truthy(rlo) THEN rlo
           ELSE IF Truthy(rhi) THEN rhi
           ELSE HintRingsUnchecked(d + 200 * Kilo, hintSpeed, hintAngleRad, sMin, sMax,
                          range, heightDiff, p, drag)

\* the rings delta = 0.2, 0.4, 0.6, 0.8 around the hint speed
RECURSIVE HintRings(_, _, _, _, _, _, _, _, _)
HintRings(d, hintSpeed, hintAngleRad, sMin, sMax, range, heightDiff, p, drag) ==
  IF ~(d <= 800 * Kilo) THEN Null
  ELSE LET lo == hintSpeed - d
           hi == hintSpeed + d
           rlo == IF lo >= sMin
                  THEN Call("trySpeedWithNewton", <<lo, hintAngleRad, range, heightDiff, p, drag>>)
                  ELSE Null
           rhi == IF hi <= sMax
                  THEN Call("trySpeedWithNewton", <<hi, hintAngleRad, range, heightDiff, p, drag>>)
                  ELSE Null
       IN  IF Truthy(rlo) THEN rlo
           ELSE IF Truthy(rhi) THEN rhi
           ELSE HintRings(d + 200 * Kilo, hintSpeed, hintAngleRad, sMin, sMax,
                          range, heightDiff, p, drag)

evaluateShotWithHint(fx, fy, p, hintSpeed, hintAngleRad) ==
  LET range == RangeTo(fx, fy, p)
      heightDiff == p.targetZ - p.shooterZ
      drag == dragFromParams(p)
      sMin == IF p.speedMode = "fixed" THEN p.fixedSpeed ELSE p.minSpeed
      sMax == IF p.speedMode = "fixed" THEN p.fixedSpeed ELSE p.maxSpeed
      direct == Call("trySpeedWithNewton", <<hintSpeed, hintAngleRad, range, heightDiff, p, drag>>)
  IN  IF tooClose(range) THEN Null
      ELSE IF Truthy(direct) THEN direct
      ELSE HintRings(200 * Kilo, hintSpeed, hintAngleRad, sMin, sMax, range,
                     heightDiff, p, drag)

\* a copy that overrides the tangential velocity only
modParamsTangentialOnly(params, tangentialVelo, radialVelo) ==
  [params EXCEPT !.tangentialVelo = tangentialVelo]

\* Object.assign({}, params, { tangentialVelo, radialVelo })
modParams(params, tangentialVelo, radialVelo) ==
  [params EXCEPT !.tangentialVelo = tangentialVelo, !.radialVelo = radialVelo]

\* the overrides assigned into the caller's object, Object.assign(params, ...)
evaluateShotAtRangeInPlace(range, tangentialVelo, radialVelo, params) ==
  LET fx == params.targetX + range
      fy == params.targetY
  IN  [result |-> Call("evaluateShot", <<fx, fy, modParams(params, tangentialVelo, radialVelo)>>),
       params |-> modParams(params, tangentialVelo, radialVelo)]

\* result: the value returned; params: the caller's configuration object as
\* the call leaves it (the copy is made into a fresh object)
evaluateShotAtRange(range, tangentialVelo, radialVelo, params) ==
  LET fx == params.targetX + range
      fy == params.targetY
  IN  [result |-> Call("evaluateShot", <<fx, fy, modParams(params, tangentialVelo, radialVelo)>>),
       params |-> params]

\* ------------------------------------------------------------------------
\*  Inputs: configurations, field positions, hints and range-chart cells
\* ------------------------------------------------------------------------

NumScenarios == 13
NumHints == 2
NumChartConfigs == 3
NumChartCells == 2
NumHeatConfigs == 5

\* a Params object; angles in degrees, the rest in metres and seconds
BaseParams ==
  [speedMode |-> "variable", minSpeed |-> 6 * One, maxSpeed |-> 12 * One, fixedSpeed |-> 8 * One,
   angleMode |-> "variable", minAngle |-> 20 * One, maxAngle |-> 70 * One, fixedAngle |-> 45 * One,
   tangentialVelo |-> 0, radialVelo |-> 0, gridRes |-> 250 * Kilo, shooterZ |-> 500 * Kilo,
   ceilingHeight |-> 4 * One, targetX |-> 4 * One, targetY |-> 4 * One, targetZ |-> 2 * One,
   maxVyAtTarget |-> -500 * Kilo, maxLateralDrift |-> 0, dragEnabled |-> FALSE]

\* the configurations of the solver sessions, target at (4, 4); the fifth
\* caps the lateral drift at 0.03 m, the seventh has its minAngle slider above
\* its maxAngle slider
Config(i) ==
  CASE i = 1 -> [BaseParams EXCEPT !.tangentialVelo = 500 * Kilo, !.radialVelo = -500 * Kilo,
                   !.ceilingHeight = 2500 * Kilo, !.angleMode = "fixed", !.speedMode = "fixed",
                   !.minSpeed = 7 * One, !.maxSpeed = 7500 * Kilo, !.minAngle = 70 * One,
                   !.maxAngle = 72 * One, !.fixedAngle = 70 * One, !.fixedSpeed = 6500 * Kilo]
    [] i = 2 -> [BaseParams EXCEPT !.radialVelo = -500 * Kilo, !.speedMode = "fixed",
                   !.minSpeed = 7 * One, !.maxSpeed = 8 * One, !.minAngle = 55 * One,
                   !.maxAngle = 57 * One, !.fixedAngle = 75 * One, !.fixedSpeed = 6500 * Kilo]
    [] i = 3 -> [BaseParams EXCEPT !.ceilingHeight = 2500 * Kilo, !.minSpeed = 6500 * Kilo,
                   !.maxSpeed = 7 * One, !.minAngle = 65 * One, !.maxAngle = 70 * One,
                   !.fixedAngle = 65 * One, !.fixedSpeed = 7 * One]
    [] i = 4 -> [BaseParams EXCEPT !.targetZ = 2640 * Kilo, !.radialVelo = -500 * Kilo,
                   !.angleMode = "fixed", !.minSpeed = 7 * One, !.maxSpeed = 7500 * Kilo,
                   !.minAngle = 80 * One, !.maxAngle = 81 * One, !.fixedAngle = 84 * One,
                   !.fixedSpeed = 7 * One]
    [] i = 5 -> [BaseParams EXCEPT !.tangentialVelo = One, !.radialVelo = -500 * Kilo,
                   !.maxLateralDrift = 30 * Kilo, !.ceilingHeight = 2500 * Kilo,
                   !.minSpeed = 6500 * Kilo, !.maxSpeed = 7 * One, !.minAngle = 65 * One,
                   !.maxAngle = 70 * One, !.fixedAngle = 65 * One, !.fixedSpeed = 7 * One]
    [] i = 7 -> [BaseParams EXCEPT !.ceilingHeight = 6 * One, !.minSpeed = 6 * One,
                   !.maxSpeed = 8 * One, !.minAngle = 66 * One, !.maxAngle = 64 * One]
    [] OTHER -> [BaseParams EXCEPT !.radialVelo = -500 * Kilo, !.ceilingHeight = 2500 * Kilo,
                   !.angleMode = "fixed", !.speedMode = "fixed", !.minSpeed = 5500 * Kilo,
                   !.maxSpeed = 6 * One, !.minAngle = 70 * One, !.maxAngle = 75 * One,
                   !.fixedAngle = 70 * One, !.fixedSpeed = 6 * One]

\* field positions <<fx, fy>>, 0.25 m to 2.85 m from the target at (4, 4)
Robot(i) ==
  CASE i = 1 -> <<3800 * Kilo, 4150 * Kilo>>
    [] i = 2 -> <<3125 * Kilo, 4 * One>>
    [] i = 3 -> <<2800 * Kilo, 3100 * Kilo>>
    [] i = 4 -> <<2125 * Kilo, 4 * One>>
    [] i = 5 -> <<2400 * Kilo, 5200 * Kilo>>
    [] i = 7 -> <<1150 * Kilo, 4 * One>>
    [] OTHER -> <<1625 * Kilo, 4 * One>>

\* the sessions: <<i, j>> is a session with Config(i) for the robot at Robot(j)
Scenario(n) ==
  CASE n = 1 -> <<1, 3>>
    [] n = 2 -> <<1, 2>>
    [] n = 3 -> <<1, 4>>
    [] n = 4 -> <<2, 4>>
    [] n = 5 -> <<2, 5>>
    [] n = 6 -> <<3, 5>>
    [] n = 7 -> <<3, 3>>
    [] n = 8 -> <<4, 1>>
    [] n = 9 -> <<1, 1>>
    [] n = 10 -> <<3, 4>>
    [] n = 11 -> <<5, 2>>
    [] n = 12 -> <<5, 4>>
    [] n = 13 -> <<7, 7>>
    [] OTHER -> <<6, 3>>

\* hints <<speed, hood angle in degrees>>, as a neighbouring cell supplies them
Hint(i) ==
  CASE i = 1 -> <<6 * One, 50 * One>>
    [] i = 2 -> <<7 * One, 65 * One>>
    [] OTHER -> <<6500 * Kilo, 70 * One>>

\* Math.round(v * scale) / scale
RoundTo(v, scale) == DivS(Round(v * scale) * One, scale * One)

\* the axes of the range chart
distances(di) == RoundTo(500 * Kilo + di * 250 * Kilo, 100)
tangentials(ti) == RoundTo(ti * 500 * Kilo, 10)
radials(ri) == RoundTo(-3 * One + ri * One, 10)

\* cells <<di, ti, ri>> of the range chart
ChartCell(i) ==
  CASE i = 1 -> <<6, 0, 3>>
    [] i = 2 -> <<4, 1, 2>>
    [] OTHER -> <<0, 1, 3>>

\* the configurations of the range chart runs; the third has air drag
ChartConfig(i) ==
  CASE i = 1 -> Config(3)
    [] i = 2 -> Config(1)
    [] i = 3 -> [BaseParams EXCEPT !.dragEnabled = TRUE, !.targetZ = 1500 * Kilo,
                   !.tangentialVelo = 500 * Kilo, !.ceilingHeight = 3 * One,
                   !.speedMode = "fixed", !.fixedSpeed = 6 * One,
                   !.minSpeed = 7 * One, !.maxSpeed = 8 * One,
                   !.minAngle = 45 * One, !.maxAngle = 50 * One, !.fixedAngle = 50 * One]
    [] OTHER -> Config(4)

\* the configurations of the heat map runs: the target 1.25 m (0.95 m) behind
\* the field's edge leaves a strip one cell (two cells) wide and 27 cells long;
\* the fourth has its ceiling below every apex its launches can have, the
\* fifth leaves an Invalid cell between two Valid ones for the recovery phase
HeatConfig(i) ==
  CASE i = 1 -> [BaseParams EXCEPT !.gridRes = 300 * Kilo, !.targetX = -1250 * Kilo,
                   !.angleMode = "fixed", !.fixedAngle = 60 * One,
                   !.minSpeed = 7 * One, !.maxSpeed = 7500 * Kilo]
    [] i = 2 -> [BaseParams EXCEPT !.gridRes = 300 * Kilo, !.targetX = -1250 * Kilo,
                   !.targetY = 6 * One, !.ceilingHeight = 5 * One, !.speedMode = "fixed",
                   !.fixedSpeed = 8 * One, !.minAngle = 60 * One, !.maxAngle = 75 * One]
    [] i = 3 -> [BaseParams EXCEPT !.gridRes = 300 * Kilo, !.targetX = -1250 * Kilo,
                   !.targetY = 2 * One, !.ceilingHeight = 5 * One, !.angleMode = "fixed",
                   !.speedMode = "fixed", !.fixedAngle = 65 * One, !.fixedSpeed = 7 * One]
    [] i = 4 -> [BaseParams EXCEPT !.gridRes = 300 * Kilo, !.targetX = -1250 * Kilo,
                   !.ceilingHeight = 2200 * Kilo, !.angleMode = "fixed",
                   !.fixedAngle = 60 * One, !.minSpeed = 7 * One, !.maxSpeed = 7500 * Kilo]
    [] i = 5 -> [BaseParams EXCEPT !.gridRes = 300 * Kilo, !.targetX = -950 * Kilo,
                   !.targetY = 2 * One, !.targetZ = 2640 * Kilo, !.tangentialVelo = 500 * Kilo,
                   !.angleMode = "fixed", !.speedMode = "fixed",
                   !.fixedAngle = 65 * One, !.fixedSpeed = 8 * One]
    [] OTHER -> [BaseParams EXCEPT !.gridRes = 300 * Kilo, !.targetX = -950 * Kilo,
                   !.targetY = 2 * One, !.radialVelo = -500 * Kilo, !.ceilingHeight = 5 * One,
                   !.angleMode = "fixed", !.fixedAngle = 60 * One,
                   !.minSpeed = 7 * One, !.maxSpeed = 7500 * Kilo]

\* ------------------------------------------------------------------------
\*  computeHeatmap: grid geometry and statistics
\* ------------------------------------------------------------------------

\* Math.ceil and Math.floor
Ceil(v) == -((-v) \div One)
Floor(v) == v \div One

displayLength(p) == Min(FIELD_LENGTH, p.targetX + DISPLAY_BUFFER)
Cols(p) == Ceil(DivS(displayLength(p), p.gridRes))
Rows(p) == Ceil(DivS(FIELD_WIDTH, p.gridRes))
\* the seed spacing with the quotient rounded up
seedSpacingRoundedUp(p) == Min(4, Max(1, Ceil(DivS(750 * Kilo, p.gridRes))))

\* Math.min(4, Math.max(1, Math.floor(0.75 / res)))
seedSpacing(p) == Min(4, Max(1, Floor(DivS(750 * Kilo, p.gridRes))))

\* (c + 0.5) * res
CellCentre(i, res) == MulS(i * One + One \div 2, res)

DR == <<-1, 1, 0, 0>>
DC == <<0, 0, -1, 1>>

\* for (let d = 0; d < 4; d++): the neighbours in the order of DR and DC
CodeOrder == <<1, 2, 3, 4>>

NumOrders == 3
NumGridRes == 100
NumSweepConfigs == 5
NumSweepRanges == 12

\* the grid resolutions 0.01 m, 0.02 m, ...
GridRes(i) == i * 10 * Kilo

\* other orders of the four neighbours
Order(i) ==
  CASE i = 1 -> <<4, 3, 2, 1>>
    [] i = 2 -> <<3, 4, 1, 2>>
    [] i = 3 -> <<2, 1, 4, 3>>
    [] OTHER -> <<1, 4, 2, 3>>

\* the configuration of the comparison of neighbour orders: a strip two
\* cells wide, shots at a fixed speed of 8 m/s under a ceiling of 3 m
OrderConfig ==
  [BaseParams EXCEPT !.gridRes = 300 * Kilo, !.targetX = -950 * Kilo, !.targetY = 6 * One,
     !.targetZ = 1500 * Kilo, !.ceilingHeight = 3 * One, !.speedMode = "fixed",
     !.fixedSpeed = 8 * One, !.minAngle = 50 * One, !.maxAngle = 60 * One]

\* the HeatmapData literal and the grid filled with UNCOMPUTED
NewHeatmapData(p) ==
  [cols |-> Cols(p), rows |-> Rows(p), res |-> p.gridRes,
   results |-> [rr \in 0..(Rows(p) - 1) |-> [cc \in 0..(Cols(p) - 1) |-> UNCOMPUTED]],
   minSpeed |-> Infinity, maxSpeed |-> -Infinity,
   minAngle |-> Infinity, maxAngle |-> -Infinity,
   validCount |-> 0]

\* the running statistics updated without the count
accumStatsMinMaxOnly(d, result) ==
  [d EXCEPT !.minSpeed = Min(d.minSpeed, result.shotSpeed),
            !.maxSpeed = Max(d.maxSpeed, result.shotSpeed),
            !.minAngle = Min(d.minAngle, result.hoodAngleDeg),
            !.maxAngle = Max(d.maxAngle, result.hoodAngleDeg)]

accumStats(d, result) ==
  [d EXCEPT !.validCount = d.validCount + 1,
            !.minSpeed = Min(d.minSpeed, result.shotSpeed),
            !.maxSpeed = Max(d.maxSpeed, result.shotSpeed),
            !.minAngle = Min(d.minAngle, result.hoodAngleDeg),
            !.maxAngle = Max(d.maxAngle, result.hoodAngleDeg)]

\* data.results[r][c] = result; if (result) accumStats(data, result)
StoreResult(d, rr, cc, result) ==
  LET d1 == [d EXCEPT !.results[rr][cc] = result]
  IN  IF Truthy(result) THEN accumStats(d1, result) ELSE d1

InGrid(d, nr, nc) == nr >= 0 /\ nr < d.rows /\ nc >= 0 /\ nc < d.cols

\* the loop indices after the pass at (rr, cc) of
\* for (r = 0; r < rows; r += step) for (c = 0; c < cols; c += step);
\* done is TRUE when both loops have ended, and the indices are then those
\* the next pair of loops starts from
NextCell(d, rr, cc, step) ==
  IF cc + step < d.cols THEN [row |-> rr, col |-> cc + step, done |-> FALSE]
  ELSE IF rr + step < d.rows THEN [row |-> rr + step, col |-> 0, done |-> FALSE]
  ELSE [row |-> 0, col |-> 0, done |-> TRUE]

\* the passes d .. 3 of the loop over the neighbours of the parent (pr, pc)
\* in phase 2; st holds data, bfsQueue, origin, attempts and order
RECURSIVE Propagate(_, _, _, _, _)
Propagate(p, pr, pc, d, st) ==
  IF d > 4 THEN st
  ELSE LET nr == pr + DR[st.order[d]]
           nc == pc + DC[st.order[d]]
           parent == st.data.results[pr][pc]
           result == Call("evaluateShotWithHint", <<CellCentre(nc, st.data.res), CellCentre(nr, st.data.res), p, parent.shotSpeed, DegToRad(parent.hoodAngleDeg)>>)
           st1 == [order |-> st.order,
                   data |-> StoreResult(st.data, nr, nc, result),
                   bfsQueue |-> IF Truthy(result) THEN Append(st.bfsQueue, <<nr, nc>>) ELSE st.bfsQueue,
                   origin |-> [st.origin EXCEPT ![nr][nc] = 2],
                   attempts |-> [st.attempts EXCEPT ![nr][nc] = Append(@, [phase |-> 2, hint |-> parent])]]
       IN  IF ~InGrid(st.data, nr, nc) THEN Propagate(p, pr, pc, d + 1, st)
           ELSE IF st.data.results[nr][nc] # UNCOMPUTED THEN Propagate(p, pr, pc, d + 1, st)
           ELSE Propagate(p, pr, pc, d + 1, st1)

\* the valid 4-connected neighbour of (rr, cc) found by passes 3 down to k - 1
\* of the loop run backwards; Null if none
RECURSIVE FindHintBackwards(_, _, _, _)
FindHintBackwards(d, rr, cc, k) ==
  IF k > 4 THEN Null
  ELSE LET nr == rr + DR[5 - k]
           nc == cc + DC[5 - k]
       IN  IF InGrid(d, nr, nc) /\ Truthy(d.results[nr][nc]) THEN d.results[nr][nc]
           ELSE FindHintBackwards(d, rr, cc, k + 1)

\* the first valid 4-connected neighbour of (rr, cc), from pass d on; Null if none
RECURSIVE FindHint(_, _, _, _)
FindHint(d, rr, cc, k) ==
  IF k > 4 THEN Null
  ELSE LET nr == rr + DR[k]
           nc == cc + DC[k]
       IN  IF InGrid(d, nr, nc) /\ Truthy(d.results[nr][nc]) THEN d.results[nr][nc]
           ELSE FindHint(d, rr, cc, k + 1)

\* the grid of the exhaustive computeHeatmap: evaluateShot at every cell centre
bruteForce(p) ==
  [rr \in 0..(Rows(p) - 1) |-> [cc \in 0..(Cols(p) - 1) |->
     Call("evaluateShot", <<CellCentre(cc, p.gridRes), CellCentre(rr, p.gridRes), p>>)]]

\* the call F(a[1], ..., a[n]) of the function named f
Call(f, a) ==
  CASE f = "Product" -> Product(a[1], a[2])
    [] f = "Quotient" -> Quotient(a[1], a[2])
    [] f = "SquareRoot" -> SquareRoot(a[1])
    [] f = "Sine" -> Sine(a[1])
    [] f = "Cosine" -> Cosine(a[1])
    [] f = "ArcTan2" -> ArcTan2(a[1], a[2])
    [] f = "deriv" -> deriv(a[1], a[2], a[3], a[4])
    [] f = "simulateToRange" -> simulateToRange(a[1], a[2], a[3], a[4], a[5], a[6])
    [] f = "SweepCandidate" -> SweepCandidate(a[1], a[2], a[3], a[4], a[5], a[6], a[7], a[8], a[9])
    [] f = "sweepSpeedAndAngle" -> sweepSpeedAndAngle(a[1], a[2], a[3], a[4], a[5], a[6], a[7], a[8], a[9], a[10], a[11])
    [] f = "evalResiduals" -> evalResiduals(a[1], a[2], a[3], a[4], a[5], a[6], a[7], a[8])
    [] f = "Residuals" -> Residuals(a[1], a[2], a[3])
    [] f = "SeedPhi" -> SeedPhi(a[1], a[2])
    [] f = "NewtonStepPhi" -> NewtonStepPhi(a[1], a[2], a[3])
    [] f = "NewtonStep2D" -> NewtonStep2D(a[1], a[2], a[3])
    [] f = "NewtonIter" -> NewtonIter(a[1], a[2])
    [] f = "refineShot" -> refineShot(a[1], a[2], a[3], a[4], a[5], a[6], a[7], a[8], a[9], a[10])
    [] f = "shotMeasures" -> shotMeasures(a[1], a[2], a[3], a[4], a[5], a[6], a[7])
    [] f = "buildResult" -> buildResult(a[1], a[2], a[3], a[4], a[5])
    [] f = "validateAndBuildResult" -> validateAndBuildResult(a[1], a[2], a[3], a[4], a[5], a[6], a[7])
    [] f = "trySpeedWithNewton" -> trySpeedWithNewton(a[1], a[2], a[3], a[4], a[5], a[6])
    [] f = "evaluateShot" -> evaluateShot(a[1], a[2], a[3])
    [] f = "evaluateShotWithHint" -> evaluateShotWithHint(a[1], a[2], a[3], a[4], a[5])
    [] f = "RK4Step" -> RK4Step(a[1], a[2])
    [] f = "dragFromParams" -> dragFromParams(a[1])
    [] f = "Interpolate" -> Interpolate(a[1], a[2], a[3])
    [] f = "evaluateShotAtRange" -> evaluateShotAtRange(a[1], a[2], a[3], a[4])
    [] f = "Propagate" -> Propagate(a[1], a[2], a[3], a[4], a[5])

\* ------------------------------------------------------------------------
\*  Solver sessions: the entry points called for one robot position
\* ------------------------------------------------------------------------

NoCall == [fn |-> "none"]

\* no function is being stepped through
NoLocals == [fn |-> "none"]

\* export const state = { ... }
StateAtLoad == [heatmapData |-> Null, rangeChartData |-> Null, currentParams |-> UNCOMPUTED, recalcTimer |-> Null, currentDetailedShot |-> Null]

\* no page is loaded
NoDocument == [tag |-> "undefined"]

EmptyData == [cols |-> 0, rows |-> 0, res |-> 0, results |-> <<>>, minSpeed |-> Infinity, maxSpeed |-> -Infinity, minAngle |-> Infinity, maxAngle |-> -Infinity, validCount |-> 0]

InitSession ==
  /\ \E n \in 1..NumScenarios :
       /\ config = Config(Scenario(n)[1])
       /\ robot = Robot(Scenario(n)[2])
  /\ call = NoCall
  /\ ret = UNCOMPUTED
  /\ memo = UNCOMPUTED
  /\ history = "none"
  /\ phase = "session"
  /\ cell = 0
  /\ data = EmptyData
  /\ bfsQueue = <<>>
  /\ head = 0
  /\ row = 0
  /\ col = 0
  /\ origin = <<>>
  /\ attempts = <<>>
  /\ order = CodeOrder
  /\ spacing = 0
  /\ locals = NoLocals
  /\ state = StateAtLoad
  /\ dom = NoDocument
  /\ tasks = <<>>

EvaluateShot ==
  /\ phase = "session"
  /\ call' = [fn |-> "evaluateShot", fx |-> robot[1], fy |-> robot[2]]
  /\ ret' = Call("evaluateShot", <<robot[1], robot[2], config>>)
  /\ memo' = IF memo = UNCOMPUTED THEN ret' ELSE memo
  /\ history' = IF history = "none" THEN "first"
                ELSE IF history = "other" THEN "again" ELSE history
  /\ UNCHANGED <<config, robot, phase, cell, data, bfsQueue, head, row, col, origin, attempts, order, spacing, locals, state, dom, tasks>>

EvaluateShotWithHint ==
  /\ phase = "session"
  /\ \E i \in 1..NumHints :
       LET hintSpeed == Hint(i)[1]
           hintAngleRad == DegToRad(Hint(i)[2])
       IN  /\ call' = [fn |-> "evaluateShotWithHint", fx |-> robot[1], fy |-> robot[2], hintSpeed |-> hintSpeed, hintAngleRad |-> hintAngleRad]
           /\ ret' = Call("evaluateShotWithHint", <<robot[1], robot[2], config, hintSpeed, hintAngleRad>>)
  /\ history' = IF history = "first" THEN "other" ELSE history
  /\ UNCHANGED <<config, robot, memo, phase, cell, data, bfsQueue, head, row, col, origin, attempts, order, spacing, locals, state, dom, tasks>>

\* the call has returned out.result and left the caller's object as out.params
Returned(out) ==
  /\ ret' = out.result
  /\ config' = out.params

\* ------------------------------------------------------------------------
\*  computeRangeChart, one cell of its panels per step
\* ------------------------------------------------------------------------

InitRangeChart ==
  /\ config \in {ChartConfig(i) : i \in 1..NumChartConfigs}
  /\ robot = <<0, 0>>
  /\ call = NoCall
  /\ ret = UNCOMPUTED
  /\ memo = UNCOMPUTED
  /\ history = "none"
  /\ phase = "chart"
  /\ cell = 0
  /\ data = EmptyData
  /\ bfsQueue = <<>>
  /\ head = 0
  /\ row = 0
  /\ col = 0
  /\ origin = <<>>
  /\ attempts = <<>>
  /\ order = CodeOrder
  /\ spacing = 0
  /\ locals = NoLocals
  /\ state = StateAtLoad
  /\ dom = NoDocument
  /\ tasks = <<>>

\* lines 181-184: the next cell of the panels is evaluated
EvaluateShotAtRange ==
  /\ phase = "chart"
  /\ LET range == distances(ChartCell(cell + 1)[1])
         tangentialVelo == tangentials(ChartCell(cell + 1)[2])
         radialVelo == radials(ChartCell(cell + 1)[3])
     IN  /\ call' = [fn |-> "evaluateShotAtRange", range |-> range, tangentialVelo |-> tangentialVelo, radialVelo |-> radialVelo]
         /\ Returned(Call("evaluateShotAtRange", <<range, tangentialVelo, radialVelo, config>>))
  /\ cell' = cell + 1
  /\ phase' = IF cell + 1 < NumChartCells THEN phase ELSE "done"
  /\ UNCHANGED <<robot, memo, history, data, bfsQueue, head, row, col, origin, attempts, order, spacing, locals, state, dom, tasks>>

\* ------------------------------------------------------------------------
\*  computeHeatmap, one pass of a loop per step
\* ------------------------------------------------------------------------

InitHeatmap ==
  /\ config \in {HeatConfig(i) : i \in 1..NumHeatConfigs}
  /\ robot = <<0, 0>>
  /\ call = NoCall
  /\ ret = UNCOMPUTED
  /\ memo = UNCOMPUTED
  /\ history = "none"
  /\ phase = "phase1"
  /\ cell = 0
  /\ data = NewHeatmapData(config)
  /\ bfsQueue = <<>>
  /\ head = 0
  /\ row = 0
  /\ col = 0
  /\ origin = [rr \in 0..(Rows(config) - 1) |-> [cc \in 0..(Cols(config) - 1) |-> 0]]
  /\ attempts = [rr \in 0..(Rows(config) - 1) |-> [cc \in 0..(Cols(config) - 1) |-> <<>>]]
  /\ order = CodeOrder
  /\ spacing = seedSpacing(config)
  /\ locals = NoLocals
  /\ state = StateAtLoad
  /\ dom = NoDocument
  /\ tasks = <<>>

\* computeHeatmap is called for the configuration of the comparison
InitOrder ==
  /\ config = OrderConfig
  /\ robot = <<0, 0>>
  /\ call = NoCall
  /\ ret = UNCOMPUTED
  /\ memo = UNCOMPUTED
  /\ history = "none"
  /\ phase = "phase1"
  /\ cell = 0
  /\ data = NewHeatmapData(config)
  /\ bfsQueue = <<>>
  /\ head = 0
  /\ row = 0
  /\ col = 0
  /\ origin = [rr \in 0..(Rows(config) - 1) |-> [cc \in 0..(Cols(config) - 1) |-> 0]]
  /\ attempts = [rr \in 0..(Rows(config) - 1) |-> [cc \in 0..(Cols(config) - 1) |-> <<>>]]
  /\ order = CodeOrder
  /\ spacing = seedSpacing(config)
  /\ locals = NoLocals
  /\ state = StateAtLoad
  /\ dom = NoDocument
  /\ tasks = <<>>

\* the returned grid is kept and computeHeatmap is called again, now trying
\* the neighbours in another order
Restart ==
  /\ phase = "done"
  /\ data.rows > 0
  /\ memo = UNCOMPUTED
  /\ memo' = data.results
  /\ \E i \in 1..NumOrders : order' = Order(i)
  /\ phase' = "phase1"
  /\ data' = NewHeatmapData(config)
  /\ bfsQueue' = <<>>
  /\ head' = 0
  /\ row' = 0
  /\ col' = 0
  /\ origin' = [rr \in 0..(Rows(config) - 1) |-> [cc \in 0..(Cols(config) - 1) |-> 0]]
  /\ attempts' = [rr \in 0..(Rows(config) - 1) |-> [cc \in 0..(Cols(config) - 1) |-> <<>>]]
  /\ UNCHANGED <<config, robot, call, ret, history, cell, spacing, locals, state, dom, tasks>>

\* computeHeatmap is called with some grid resolution
InitSeedSpacing ==
  /\ \E i \in 1..NumGridRes : config = [BaseParams EXCEPT !.gridRes = GridRes(i)]
  /\ robot = <<0, 0>>
  /\ call = NoCall
  /\ ret = UNCOMPUTED
  /\ memo = UNCOMPUTED
  /\ history = "none"
  /\ phase = "start"
  /\ cell = 0
  /\ data = EmptyData
  /\ bfsQueue = <<>>
  /\ head = 0
  /\ row = 0
  /\ col = 0
  /\ origin = <<>>
  /\ attempts = <<>>
  /\ order = CodeOrder
  /\ spacing = 0
  /\ locals = NoLocals
  /\ state = StateAtLoad
  /\ dom = NoDocument
  /\ tasks = <<>>

\* line 50: const seedSpacing = ...
SeedSpacing ==
  /\ phase = "start"
  /\ spacing' = seedSpacing(config)
  /\ phase' = "spaced"
  /\ UNCHANGED <<config, robot, call, ret, memo, history, cell, data, bfsQueue, head, row, col, origin, attempts, order, locals, state, dom, tasks>>

\* the arguments evaluateShot passes to sweepSpeedAndAngle for the
\* configuration p and a target at the given range
SweepInput(p, range) ==
  LET sMin == IF p.speedMode = "fixed" THEN p.fixedSpeed ELSE p.minSpeed
      sMax == IF p.speedMode = "fixed" THEN p.fixedSpeed ELSE p.maxSpeed
      aMin == IF p.angleMode = "fixed" THEN p.fixedAngle ELSE p.minAngle
      aMax == IF p.angleMode = "fixed" THEN p.fixedAngle ELSE p.maxAngle
      speedStepSize == IF p.angleMode = "fixed" /\ p.speedMode # "fixed"
                       THEN 50 * Kilo ELSE 100 * Kilo
      actualSpeedSteps == IF p.speedMode = "fixed" THEN 1
                          ELSE Max(2, Round(DivS(sMax - sMin, speedStepSize)) + 1)
  IN  <<sMin, sMax, actualSpeedSteps, aMin, aMax, p.tangentialVelo, p.radialVelo,
        range, p.targetZ - p.shooterZ, p.shooterZ, p.ceilingHeight>>

\* evaluateShot is about to sweep for a robot 0.3 m, 0.6 m, ... from the target
InitSweep ==
  /\ \E i \in 1..NumSweepConfigs, j \in 1..NumSweepRanges :
       /\ config = Config(i)
       /\ robot = <<config.targetX - j * 300 * Kilo, config.targetY>>
  /\ call = NoCall
  /\ ret = UNCOMPUTED
  /\ memo = UNCOMPUTED
  /\ history = "none"
  /\ phase = "sweep"
  /\ cell = 0
  /\ data = EmptyData
  /\ bfsQueue = <<>>
  /\ head = 0
  /\ row = 0
  /\ col = 0
  /\ origin = <<>>
  /\ attempts = <<>>
  /\ order = CodeOrder
  /\ spacing = 0
  /\ locals = NoLocals
  /\ state = StateAtLoad
  /\ dom = NoDocument
  /\ tasks = <<>>

\* lines 490-496: the sweep of evaluateShot
SweepSpeedAndAngle ==
  /\ phase = "sweep"
  /\ call' = [fn |-> "sweepSpeedAndAngle", range |-> RangeTo(robot[1], robot[2], config)]
  /\ ret' = Call("sweepSpeedAndAngle", SweepInput(config, RangeTo(robot[1], robot[2], config)))
  /\ phase' = "swept"
  /\ UNCHANGED <<config, robot, memo, history, cell, data, bfsQueue, head, row, col, origin, attempts, order, spacing, locals, state, dom, tasks>>

\* the loop indices move on to nxt, or the next phase begins
Advance(nxt, following) ==
  /\ row' = nxt.row
  /\ col' = nxt.col
  /\ phase' = IF nxt.done THEN following ELSE phase

\* the seed cell stored and queued whether it is valid or not
SeededAndQueued(result) ==
  /\ data' = StoreResult(data, row, col, result)
  /\ bfsQueue' = Append(bfsQueue, <<row, col>>)
  /\ origin' = [origin EXCEPT ![row][col] = 1]
  /\ attempts' = [attempts EXCEPT ![row][col] = Append(@, [phase |-> 1, hint |-> Null])]

\* lines 60-64: the seed cell (row, col) has been evaluated as result
Seeded(result) ==
  /\ data' = StoreResult(data, row, col, result)
  /\ bfsQueue' = IF Truthy(result) THEN Append(bfsQueue, <<row, col>>) ELSE bfsQueue
  /\ origin' = [origin EXCEPT ![row][col] = 1]
  /\ attempts' = [attempts EXCEPT ![row][col] = Append(@, [phase |-> 1, hint |-> Null])]

\* Phase 1: full sweep at the seed cell (row, col)
Phase1Seed ==
  /\ phase = "phase1"
  /\ Seeded(Call("evaluateShot", <<CellCentre(col, data.res), CellCentre(row, data.res), config>>))
  /\ Advance(NextCell(data, row, col, spacing), "phase2")
  /\ UNCHANGED <<config, robot, call, ret, memo, history, cell, head, order, spacing, locals, state, dom, tasks>>

\* the neighbours of the parent have been tried, leaving st
Propagated(st) ==
  /\ data' = st.data
  /\ bfsQueue' = st.bfsQueue
  /\ origin' = st.origin
  /\ attempts' = st.attempts

\* Phase 2: one pass of while (head < bfsQueue.length)
Phase2Propagate ==
  /\ phase = "phase2"
  /\ head < Len(bfsQueue)
  /\ Propagated(Call("Propagate", <<config, bfsQueue[head + 1][1], bfsQueue[head + 1][2], 1, [data |-> data, bfsQueue |-> bfsQueue, origin |-> origin, attempts |-> attempts, order |-> order]>>))
  /\ head' = head + 1
  /\ UNCHANGED <<config, robot, call, ret, memo, history, cell, phase, row, col, order, spacing, locals, state, dom, tasks>>

\* the while loop ends
Phase2End ==
  /\ phase = "phase2"
  /\ ~(head < Len(bfsQueue))
  /\ phase' = "phase3"
  /\ row' = 0
  /\ col' = 0
  /\ UNCHANGED <<config, robot, call, ret, memo, history, cell, data, bfsQueue, head, origin, attempts, order, spacing, locals, state, dom, tasks>>

\* the straggler sweep without its test for cells already computed
SweptEvery(result) ==
  /\ data' = StoreResult(data, row, col, result)
  /\ origin' = [origin EXCEPT ![row][col] = 3]
  /\ attempts' = [attempts EXCEPT ![row][col] = Append(@, [phase |-> 3, hint |-> Null])]

\* lines 100-107: the cell (row, col) is skipped if computed, else it is
\* evaluated as result
Swept(result) ==
  IF data.results[row][col] # UNCOMPUTED THEN UNCHANGED <<data, origin, attempts, locals, state, dom, tasks>>
  ELSE /\ data' = StoreResult(data, row, col, result)
       /\ origin' = [origin EXCEPT ![row][col] = 3]
       /\ attempts' = [attempts EXCEPT ![row][col] = Append(@, [phase |-> 3, hint |-> Null])]

\* Phase 3: full sweep at (row, col) if the propagation did not reach it
Phase3Straggler ==
  /\ phase = "phase3"
  /\ Swept(Call("evaluateShot", <<CellCentre(col, data.res), CellCentre(row, data.res), config>>))
  /\ Advance(NextCell(data, row, col, 1), "phase4")
  /\ UNCHANGED <<config, robot, call, ret, memo, history, cell, bfsQueue, head, order, spacing, locals, state, dom, tasks>>

\* lines 118-141: the cell (row, col) is skipped unless it is null and has a
\* valid neighbour hint; a retry with that hint that gives result replaces it
Retried(hint, result) ==
  IF data.results[row][col] # Null THEN UNCHANGED <<data, origin, attempts, locals, state, dom, tasks>>
  ELSE IF ~Truthy(hint) THEN UNCHANGED <<data, origin, attempts, locals, state, dom, tasks>>
  ELSE /\ attempts' = [attempts EXCEPT ![row][col] = Append(@, [phase |-> 4, hint |-> hint])]
       /\ IF Truthy(result)
            THEN /\ data' = accumStats([data EXCEPT !.results[row][col] = result], result)
                 /\ origin' = [origin EXCEPT ![row][col] = 4]
          ELSE UNCHANGED <<data, origin, locals, state, dom, tasks>>

RetriedWith(hint) ==
  Retried(hint, Call("evaluateShotWithHint", <<CellCentre(col, data.res), CellCentre(row, data.res), config, hint.shotSpeed, DegToRad(hint.hoodAngleDeg)>>))

\* Phase 4: one more try at the null cell (row, col) with a valid neighbour's hint
Phase4Recover ==
  /\ phase = "phase4"
  /\ RetriedWith(FindHint(data, row, col, 1))
  /\ Advance(NextCell(data, row, col, 1), "done")
  /\ UNCHANGED <<config, robot, call, ret, memo, history, cell, bfsQueue, head, order, spacing, locals, state, dom, tasks>>

\* ------------------------------------------------------------------------
\*  computeRangeChart, one pass of an axis loop or a few passes of the loop
\*  over di per step
\* ------------------------------------------------------------------------

\* the passes of the loop over di that one step makes
CellsPerStep == 13

distMin == 500 * Kilo
distMax == 10 * One
distStep == 250 * Kilo
tanMin == 0
tanMax == 5 * One
tanStep == 500 * Kilo
radMin == -3 * One
radMax == 3 * One
radStep == One

\* the configuration charted: angle and speed fixed at 45 degrees and 12 m/s,
\* the robot's own velocities 0.5 m/s and -0.5 m/s
RangeChartConfig ==
  [Config(1) EXCEPT !.ceilingHeight = 6 * One, !.fixedSpeed = 12 * One, !.fixedAngle = 45 * One]

\* lines 152-154: the for loop that fills the axis named by pc, and the loop
\* that follows it
AxisLoop(pc) ==
  CASE pc = "distances" -> [min |-> distMin, max |-> distMax, step |-> distStep, scale |-> 100, then |-> "tangentials"]
    [] pc = "tangentials" -> [min |-> tanMin, max |-> tanMax, step |-> tanStep, scale |-> 10, then |-> "radials"]
    [] OTHER -> [min |-> radMin, max |-> radMax, step |-> radStep, scale |-> 10, then |-> "rows"]

\* lines 152-157: the constants, and the first loop entered with d = distMin
RangeChartEntered ==
  [fn |-> "computeRangeChart", pc |-> "distances", v |-> distMin,
   distances |-> <<>>, tangentials |-> <<>>, radials |-> <<>>,
   ri |-> 0, ti |-> 0, di |-> 0, panel |-> <<>>, row |-> <<>>, data |-> UNCOMPUTED]

\* lines 168-174
NewChartData(dAxis, tAxis, rAxis) ==
  [distances |-> dAxis, tangentials |-> tAxis, radials |-> rAxis,
   panels |-> <<>>,
   minSpeed |-> Infinity, maxSpeed |-> -Infinity,
   minAngle |-> Infinity, maxAngle |-> -Infinity,
   validCount |-> 0, totalCount |-> 0]

InitComputeRangeChart ==
  /\ config = RangeChartConfig
  /\ robot = <<0, 0>>
  /\ call = NoCall
  /\ ret = UNCOMPUTED
  /\ memo = UNCOMPUTED
  /\ history = "none"
  /\ phase = "chart"
  /\ cell = 0
  /\ data = EmptyData
  /\ bfsQueue = <<>>
  /\ head = 0
  /\ row = 0
  /\ col = 0
  /\ origin = <<>>
  /\ attempts = <<>>
  /\ order = CodeOrder
  /\ spacing = 0
  /\ locals = RangeChartEntered
  /\ state = StateAtLoad
  /\ dom = NoDocument
  /\ tasks = <<>>

\* a count that takes in the Valid cells only
ChartCountedValidOnly(d, result) ==
  IF Truthy(result)
    THEN [d EXCEPT !.totalCount = d.totalCount + 1, !.validCount = d.validCount + 1,
                   !.minSpeed = Min(d.minSpeed, result.shotSpeed),
                   !.maxSpeed = Max(d.maxSpeed, result.shotSpeed),
                   !.minAngle = Min(d.minAngle, result.hoodAngleDeg),
                   !.maxAngle = Max(d.maxAngle, result.hoodAngleDeg)]
  ELSE d

\* lines 181-193: data after the cell's result is counted
ChartCounted(d, result) ==
  LET d1 == [d EXCEPT !.totalCount = d.totalCount + 1]
  IN  IF Truthy(result)
        THEN [d1 EXCEPT !.validCount = d1.validCount + 1,
                        !.minSpeed = Min(d1.minSpeed, result.shotSpeed),
                        !.maxSpeed = Max(d1.maxSpeed, result.shotSpeed),
                        !.minAngle = Min(d1.minAngle, result.hoodAngleDeg),
                        !.maxAngle = Max(d1.maxAngle, result.hoodAngleDeg)]
      ELSE d1

\* lines 185-193: what one pass of the loop over di leaves, given the result
\* and the caller's object that evaluateShotAtRange returned as out; acc.row
\* is panel[ti], acc.data the data, acc.params the caller's configuration
\* object, acc.result the last result
DistancePass(acc, out) ==
  [row |-> Append(acc.row, out.result),
   data |-> ChartCounted(acc.data, out.result),
   params |-> out.params,
   result |-> out.result]

\* lines 155-166: one pass of the loop that fills an axis (the steps 0.25,
\* 0.5 and 1 and their sums are exact in doubles)
RangeChartAxisPass ==
  /\ locals.fn = "computeRangeChart"
  /\ locals.pc \in {"distances", "tangentials", "radials"}
  /\ locals.v <= AxisLoop(locals.pc).max + Kilo
  /\ LET loop == AxisLoop(locals.pc)
         value == RoundTo(locals.v, loop.scale)
     IN  locals' = [locals EXCEPT
                      !.distances = IF locals.pc = "distances" THEN Append(@, value) ELSE @,
                      !.tangentials = IF locals.pc = "tangentials" THEN Append(@, value) ELSE @,
                      !.radials = IF locals.pc = "radials" THEN Append(@, value) ELSE @,
                      !.v = locals.v + loop.step]
  /\ UNCHANGED <<config, robot, call, ret, memo, history, phase, cell, data, bfsQueue, head, row, col, origin, attempts, order, spacing, state, dom, tasks>>

\* the loop's test fails: the next axis is begun, or (lines 168-176) the data
\* is made and the loops over the panels are entered
RangeChartAxisEnd ==
  /\ locals.fn = "computeRangeChart"
  /\ locals.pc \in {"distances", "tangentials", "radials"}
  /\ ~(locals.v <= AxisLoop(locals.pc).max + Kilo)
  /\ LET then == AxisLoop(locals.pc).then
     IN  locals' = IF then = "rows"
                     THEN [locals EXCEPT !.pc = "rows", !.ri = 0, !.ti = 0, !.di = 0, !.panel = <<>>, !.row = <<>>,
                                         !.data = NewChartData(locals.distances, locals.tangentials, locals.radials)]
                   ELSE [locals EXCEPT !.pc = then, !.v = AxisLoop(then).min]
  /\ UNCHANGED <<config, robot, call, ret, memo, history, phase, cell, data, bfsQueue, head, row, col, origin, attempts, order, spacing, state, dom, tasks>>

\* lines 194-196: the pass of the loop over ti ends with the row acc.row,
\* and the pass of the loop over ri with it when it was the last of its panel
RowEnds(acc) ==
  LET l == locals
      panel1 == Append(l.panel, acc.row)
      panelEnds == l.ti + 1 >= Len(l.data.tangentials)
      chartEnds == panelEnds /\ l.ri + 1 >= Len(l.data.radials)
  IN  /\ call' = [fn |-> "evaluateShotAtRange", range |-> l.data.distances[Len(l.data.distances)],
                  tangentialVelo |-> l.data.tangentials[l.ti + 1], radialVelo |-> l.data.radials[l.ri + 1]]
      /\ ret' = acc.result
      /\ config' = acc.params
      /\ locals' = [l EXCEPT !.di = 0,
                             !.row = <<>>,
                             !.ti = IF panelEnds THEN 0 ELSE l.ti + 1,
                             !.ri = IF panelEnds THEN l.ri + 1 ELSE l.ri,
                             !.panel = IF panelEnds THEN <<>> ELSE panel1,
                             !.data = IF panelEnds THEN [acc.data EXCEPT !.panels = Append(acc.data.panels, panel1)]
                                      ELSE acc.data,
                             !.pc = IF chartEnds THEN "return" ELSE "rows"]

\* lines 180-193: the loop over di is left at di, to be taken up by the next
\* step
RowContinues(di, acc) ==
  /\ call' = [fn |-> "evaluateShotAtRange", range |-> locals.data.distances[di],
              tangentialVelo |-> locals.data.tangentials[locals.ti + 1],
              radialVelo |-> locals.data.radials[locals.ri + 1]]
  /\ ret' = acc.result
  /\ config' = acc.params
  /\ locals' = [locals EXCEPT !.di = di, !.row = acc.row, !.data = acc.data]

\* lines 180-194: n passes of the loop over di from di on, or those that
\* remain
RECURSIVE DistanceLoop(_, _, _)
DistanceLoop(di, n, acc) ==
  IF ~(di < Len(acc.data.distances)) THEN RowEnds(acc)
  ELSE IF n = 0 THEN RowContinues(di, acc)
  ELSE \E out \in {Call("evaluateShotAtRange",
                        <<acc.data.distances[di + 1], locals.data.tangentials[locals.ti + 1],
                          locals.data.radials[locals.ri + 1], acc.params>>)} :
         \E next \in {DistancePass(acc, out)} : DistanceLoop(di + 1, n - 1, next)

\* lines 178-196: CellsPerStep passes of the loop over di, and the end of the
\* pass of the loop over ti when the loop over di ends
RangeChartRow ==
  /\ locals.fn = "computeRangeChart"
  /\ locals.pc = "rows"
  /\ \E acc \in {[row |-> locals.row, data |-> locals.data, params |-> config, result |-> ret]} :
       DistanceLoop(locals.di, CellsPerStep, acc)
  /\ UNCHANGED <<robot, memo, history, phase, cell, data, bfsQueue, head, row, col, origin, attempts, order, spacing, state, dom, tasks>>

\* line 198: return data
RangeChartReturn ==
  /\ locals.fn = "computeRangeChart"
  /\ locals.pc = "return"
  /\ locals' = [locals EXCEPT !.pc = "returned"]
  /\ phase' = "done"
  /\ call' = NoCall
  /\ UNCHANGED <<config, robot, ret, memo, history, cell, data, bfsQueue, head, row, col, origin, attempts, order, spacing, state, dom, tasks>>

NextRangeChart == RangeChartAxisPass \/ RangeChartAxisEnd \/ RangeChartRow \/ RangeChartReturn

\* ------------------------------------------------------------------------
\*  refineShot, one pass of its loops per step
\* ------------------------------------------------------------------------

NumRefineConfigs == 4
NumRefineRanges == 6

\* the configurations refineShot is stepped through for: two with a variable
\* angle, then a variable and a fixed angle with the robot backing away at
\* 3 m/s, which leaves no radial speed towards the target
RefineConfig(i) ==
  CASE i = 1 -> Config(3)
    [] i = 2 -> Config(2)
    [] i = 3 -> [Config(3) EXCEPT !.radialVelo = -3 * One]
    [] i = 4 -> [Config(1) EXCEPT !.radialVelo = -3 * One]
    [] OTHER -> Config(1)

\* lines 443-455: the arguments trySpeedWithNewton calls refineShot with
RefineArgs(speed, seedAngle, range, heightDiff, p, drag) ==
  LET aMin == IF p.angleMode = "fixed" THEN p.fixedAngle ELSE p.minAngle
      aMax == IF p.angleMode = "fixed" THEN p.fixedAngle ELSE p.maxAngle
      isFixedAngle == p.angleMode = "fixed"
  IN  <<speed, IF isFixedAngle THEN DegToRad(aMin) ELSE seedAngle, p.tangentialVelo,
        p.radialVelo, range, heightDiff, aMin, aMax, isFixedAngle, drag>>

\* lines 276-287: refineShot has been entered with the arguments a; pushes
\* counts the times line 350 has run and passes the passes of the inner
\* loop's body begun since the last of them
RefineEntered(a) ==
  LET cx == [speed |-> a[1], tangentialVelo |-> a[3], radialVelo |-> a[4],
             range |-> a[5], heightDiff |-> a[6], fixedTheta |-> a[9], drag |-> a[10],
             clampMin |-> Max(DegToRad(a[7]), 50 * Kilo),
             clampMax |-> Min(DegToRad(a[8]), HalfPI - 50 * Kilo)]
  IN  [fn |-> "refineShot", args |-> a, cx |-> cx, pc |-> "pass", attempt |-> 0, i |-> 0,
       theta |-> a[2], phi |-> SeedPhi(cx, a[2]), shotTime |-> 0, lastVz |-> 0,
       pushes |-> 0, passes |-> 0, total |-> 0]

\* trySpeedWithNewton has just called refineShot at the lowest speed of the
\* configuration, seeded with its lowest angle, 0.3 m, 0.6 m, ... from the target
InitRefine ==
  /\ \E i \in 1..NumRefineConfigs, j \in 1..NumRefineRanges :
       /\ config = RefineConfig(i)
       /\ robot = <<config.targetX - j * 300 * Kilo, config.targetY>>
  /\ call = NoCall
  /\ ret = UNCOMPUTED
  /\ memo = UNCOMPUTED
  /\ history = "none"
  /\ phase = "refine"
  /\ cell = 0
  /\ data = EmptyData
  /\ bfsQueue = <<>>
  /\ head = 0
  /\ row = 0
  /\ col = 0
  /\ origin = <<>>
  /\ attempts = <<>>
  /\ order = CodeOrder
  /\ spacing = 0
  /\ locals = RefineEntered(RefineArgs(SweepInput(config, RangeTo(robot[1], robot[2], config))[1],
                                       DegToRad(SweepInput(config, RangeTo(robot[1], robot[2], config))[4]),
                                       RangeTo(robot[1], robot[2], config),
                                       config.targetZ - config.shooterZ, config,
                                       dragFromParams(config)))
  /\ state = StateAtLoad
  /\ dom = NoDocument
  /\ tasks = <<>>

\* line 289: for (let attempt = 0; attempt < 2; attempt++)
MoreAttempts(attempt) == attempt < 2

\* the inner loop with no bound on its passes
MorePassesUnbounded(i) == TRUE

\* line 290: for (let i = 0; i < 25; i++)
MorePasses(i) == i < 25

\* lines 290-343: the test of the inner loop and, when it holds, one pass of
\* its body; `continue' and the end of the body both go on to i++
RefinePass ==
  /\ locals.fn = "refineShot"
  /\ locals.pc = "pass"
  /\ LET r == Call("NewtonIter", <<locals.cx, [theta |-> locals.theta, phi |-> locals.phi,
                                            shotTime |-> locals.shotTime, lastVz |-> locals.lastVz]>>)
     IN  locals' = IF ~MorePasses(locals.i) THEN [locals EXCEPT !.pc = "descent"]
                   ELSE [locals EXCEPT !.theta = r.st.theta, !.phi = r.st.phi,
                                       !.shotTime = r.st.shotTime, !.lastVz = r.st.lastVz,
                                       !.i = IF r.brk THEN @ ELSE @ + 1,
                                       !.pc = IF r.brk THEN "descent" ELSE "pass",
                                       !.passes = @ + 1, !.total = @ + 1]
  /\ UNCHANGED <<config, robot, call, ret, memo, history, phase, cell, data, bfsQueue, head, row, col, origin, attempts, order, spacing, state, dom, tasks>>

\* lines 345-352 and the attempt++ of line 289: the descent check after the
\* inner loop, the push to a steeper angle, and the test of the outer loop
RefineDescentCheck ==
  /\ locals.fn = "refineShot"
  /\ locals.pc = "descent"
  /\ LET steeper == Min(locals.theta + 150 * Kilo, locals.cx.clampMax)
     IN  locals' = IF locals.lastVz < 0 THEN [locals EXCEPT !.pc = "return"]
                   ELSE IF locals.cx.fixedTheta THEN [locals EXCEPT !.pc = "return"]
                   ELSE [locals EXCEPT !.theta = steeper,
                                       !.phi = Call("SeedPhi", <<locals.cx, steeper>>),
                                       !.attempt = @ + 1, !.i = 0,
                                       !.pc = IF MoreAttempts(locals.attempt + 1) THEN "pass" ELSE "return",
                                       !.pushes = @ + 1, !.passes = 0]
  /\ UNCHANGED <<config, robot, call, ret, memo, history, phase, cell, data, bfsQueue, head, row, col, origin, attempts, order, spacing, state, dom, tasks>>

\* line 355: return { angle: theta, shotTime, turretAdjRad: phi }
RefineReturn ==
  /\ locals.fn = "refineShot"
  /\ locals.pc = "return"
  /\ call' = [fn |-> "refineShot", args |-> locals.args]
  /\ ret' = [angle |-> locals.theta, shotTime |-> locals.shotTime, turretAdjRad |-> locals.phi]
  /\ locals' = [locals EXCEPT !.pc = "returned"]
  /\ phase' = "refined"
  /\ UNCHANGED <<config, robot, memo, history, cell, data, bfsQueue, head, row, col, origin, attempts, order, spacing, state, dom, tasks>>

NextRefine == RefinePass \/ RefineDescentCheck \/ RefineReturn

\* ------------------------------------------------------------------------
\*  simulateToRange, one pass of its loop per step
\* ------------------------------------------------------------------------

NumSimInputs == 4

\* the arguments <<vx0, vy0, vz0, range, shooterZ, k>> simulateToRange is
\* stepped through for: a ball too slow to reach the range in 5 s (with the
\* shooterZ of 1000 that evalResiduals passes), one that reaches it, one that
\* falls to the ground short of it, and one that passes the range during the
\* step that takes it below the ground
SimInput(i) ==
  LET drag == Call("dragFromParams", <<[BaseParams EXCEPT !.dragEnabled = TRUE]>>)
  IN  CASE i = 1 -> <<200 * Kilo, 0, 5 * One, 10 * One, 1000 * One, drag.k>>
        [] i = 2 -> <<3 * One, 100 * Kilo, 6 * One, 2 * One, 500 * Kilo, drag.k>>
        [] i = 3 -> <<One, 0, One, 5 * One, 500 * Kilo, drag.k>>
        [] i = 4 -> <<10 * One, 0, 0, 3120 * Kilo, 500 * Kilo, drag.k>>
        [] OTHER -> <<2 * One, 0, 4 * One, One, 500 * Kilo, 0>>

\* simulateToRange has been entered
InitSimulate ==
  /\ config = BaseParams
  /\ robot = <<0, 0>>
  /\ call = NoCall
  /\ ret = UNCOMPUTED
  /\ memo = UNCOMPUTED
  /\ history = "none"
  /\ phase = "simulate"
  /\ cell = 0
  /\ data = EmptyData
  /\ bfsQueue = <<>>
  /\ head = 0
  /\ row = 0
  /\ col = 0
  /\ origin = <<>>
  /\ attempts = <<>>
  /\ order = CodeOrder
  /\ spacing = 0
  /\ \E i \in 1..NumSimInputs :
       locals = [fn |-> "simulateToRange", args |-> SimInput(i), pc |-> "loop", steps |-> 0,
                 s |-> SimEntered(SimInput(i)[1], SimInput(i)[2], SimInput(i)[3])]
  /\ state = StateAtLoad
  /\ dom = NoDocument
  /\ tasks = <<>>

\* lines 64-114: the test of the while loop and, when it holds, one pass of
\* its body; steps counts the RK4 steps taken
SimulatePass ==
  /\ locals.fn = "simulateToRange"
  /\ locals.pc = "loop"
  /\ LET s == SimPass(locals.s, locals.args[4], locals.args[5], locals.args[6])
     IN  locals' = [locals EXCEPT !.s = s,
                                  !.steps = IF LessDouble(locals.s.tBits, MaxTBits) THEN @ + 1 ELSE @,
                                  !.pc = IF s.done THEN "return" ELSE "loop"]
  /\ UNCHANGED <<config, robot, call, ret, memo, history, phase, cell, data, bfsQueue, head, row, col, origin, attempts, order, spacing, state, dom, tasks>>

\* lines 92, 98-106, 117: return null, or the interpolated state
SimulateReturn ==
  /\ locals.fn = "simulateToRange"
  /\ locals.pc = "return"
  /\ call' = [fn |-> "simulateToRange", args |-> locals.args]
  /\ ret' = locals.s.ret
  /\ locals' = [locals EXCEPT !.pc = "returned"]
  /\ phase' = "simulated"
  /\ UNCHANGED <<config, robot, memo, history, cell, data, bfsQueue, head, row, col, origin, attempts, order, spacing, state, dom, tasks>>

NextSimulate == SimulatePass \/ SimulateReturn

\* ------------------------------------------------------------------------
\*  The page: controls, recalculation timer, animation frames, shot modal
\* ------------------------------------------------------------------------
\*
\*  state is the exported `state' object, dom what the handlers read and write
\*  of the document, tasks the callbacks the browser holds, oldest first: the
\*  timeouts set by setTimeout and the callbacks passed to
\*  requestAnimationFrame.  A grid is represented by the function that
\*  computed it and the Params it was computed from, a ShotResult by the grid
\*  it was read from, a DetailedShot by the arguments of computeDetailedShot.

\* the control changes and the callbacks held at once that are followed
MaxTimers == 3

MaxPending == 2

\* the value attribute of the fixedSpeed slider
SliderValues == {"8", "12"}

\* parseFloat of a slider's value
parseFloat(value) == CASE value = "8" -> 8 * One [] value = "12" -> 12 * One

\* the .shot-panel elements of #shot-modal-grid: cv-side, cv-top, cv-back
Panels == 1..3

\* the callback reads state.currentDetailedShot when it runs
ReadsState == [tag |-> "state.currentDetailedShot"]

getViewMode(d) == d.view

readParams(d) == [BaseParams EXCEPT !.fixedSpeed = parseFloat(d.fixedSpeed)]

\* computeHeatmap(params), computeRangeChart(params)
Computed(fn, params) == [tag |-> "object", fn |-> fn, params |-> params]

\* hd.results[row][col], rcd.panels[ri][ti][di]: a Valid cell of the grid
ResultOf(grid) == [tag |-> "object", grid |-> grid]

computeDetailedShot(result, params) == [tag |-> "object", result |-> result, params |-> params]

\* the grid of the view the document shows
ActiveGrid(s, d) == IF getViewMode(d) = "range" THEN s.rangeChartData ELSE s.heatmapData

\* state and document when init() returns: the controls as the URL set them,
\* the grid of the view computed from them, the modal not shown
PageLoaded(value, mode) ==
  LET d == [fixedSpeed |-> value, view |-> mode, panels |-> [p \in Panels |-> ""], backdrop |-> "none",
            status |-> "valid", timers |-> 0, drawn |-> UNCOMPUTED]
      s == [StateAtLoad EXCEPT !.currentParams = readParams(d)]
  IN  [state |-> IF getViewMode(d) = "range"
                 THEN [s EXCEPT !.rangeChartData = Computed("computeRangeChart", readParams(d))]
                 ELSE [s EXCEPT !.heatmapData = Computed("computeHeatmap", readParams(d))],
       dom |-> d,
       tasks |-> <<>>]

InitPage ==
  /\ config = BaseParams
  /\ robot = <<0, 0>>
  /\ call = NoCall
  /\ ret = UNCOMPUTED
  /\ memo = UNCOMPUTED
  /\ history = "none"
  /\ phase = "page"
  /\ cell = 0
  /\ data = EmptyData
  /\ bfsQueue = <<>>
  /\ head = 0
  /\ row = 0
  /\ col = 0
  /\ origin = <<>>
  /\ attempts = <<>>
  /\ order = CodeOrder
  /\ spacing = 0
  /\ locals = NoLocals
  /\ \E value \in SliderValues, mode \in {"field", "range"} :
       /\ state = PageLoaded(value, mode).state
       /\ dom = PageLoaded(value, mode).dom
       /\ tasks = PageLoaded(value, mode).tasks

Browser == [state |-> state, dom |-> dom, tasks |-> tasks]

Becomes(b) ==
  /\ state' = b.state
  /\ dom' = b.dom
  /\ tasks' = b.tasks

IsTimeout(t) == t.kind = "timeout"

IsFrame(t) == t.kind = "frame"

requestAnimationFrame(b, fn, shot, panel) ==
  [b EXCEPT !.tasks = Append(@, [kind |-> "frame", id |-> 0, fn |-> fn, shot |-> shot, panel |-> panel])]

\* scheduleRecalc with the `if (state.recalcTimer !== null) clearTimeout' line
\* left out
scheduleRecalcKeepingTimers(b) ==
  LET id == b.dom.timers + 1
  IN  [b EXCEPT !.tasks = Append(@, [kind |-> "timeout", id |-> id, fn |-> "recalc", shot |-> Null, panel |-> 0]),
                !.state.recalcTimer = [tag |-> "object", id |-> id],
                !.dom.timers = id]

\* lines 212-216 and 241: clearTimeout of the timer state.recalcTimer names,
\* setTimeout of a new one
scheduleRecalc(b) ==
  LET Kept(t) == ~(IsTimeout(t) /\ b.state.recalcTimer = [tag |-> "object", id |-> t.id])
      id == b.dom.timers + 1
  IN  [b EXCEPT !.tasks = Append(SelectSeq(@, Kept), [kind |-> "timeout", id |-> id, fn |-> "recalc", shot |-> Null, panel |-> 0]),
                !.state.recalcTimer = [tag |-> "object", id |-> id],
                !.dom.timers = id]

collapseExpandedPanel(b) ==
  LET wasExpanded == \E p \in Panels : b.dom.panels[p] \in {"expanded", "collapsed"}
      cleared == [b EXCEPT !.dom.panels = [p \in Panels |-> ""]]
  IN  IF wasExpanded /\ Truthy(b.state.currentDetailedShot)
      THEN requestAnimationFrame(cleared, "renderAllPanels", ReadsState, 0)
      ELSE cleared

openShotModal(b, shot) ==
  LET collapsed == collapseExpandedPanel([b EXCEPT !.state.currentDetailedShot = shot])
  IN  requestAnimationFrame([collapsed EXCEPT !.dom.backdrop = "flex"], "renderAllPanels", shot, 0)

closeShotModal(b) ==
  [collapseExpandedPanel(b) EXCEPT !.dom.backdrop = "none", !.state.currentDetailedShot = Null]

expandPanel(b, panelEl) ==
  IF ~Truthy(b.state.currentDetailedShot) THEN b
  ELSE requestAnimationFrame(
         [b EXCEPT !.dom.panels = [p \in Panels |-> IF p = panelEl THEN "expanded" ELSE "collapsed"]],
         "renderer", ReadsState, panelEl)

\* the input event of the slider
SliderInput ==
  /\ phase = "page"
  /\ dom.timers < MaxTimers
  /\ Len(tasks) < MaxPending
  /\ \E value \in SliderValues \ {dom.fixedSpeed} :
       Becomes(scheduleRecalc([Browser EXCEPT !.dom.fixedSpeed = value]))
  /\ UNCHANGED <<config, robot, call, ret, memo, history, phase, cell, data, bfsQueue, head, row, col, origin, attempts, order, spacing, locals>>

\* the click listener of the buttons of the view toggle
ViewClick ==
  /\ phase = "page"
  /\ dom.timers < MaxTimers
  /\ Len(tasks) < MaxPending
  /\ \E mode \in {"field", "range"} :
       Becomes(scheduleRecalc([Browser EXCEPT !.dom.view = mode]))
  /\ UNCHANGED <<config, robot, call, ret, memo, history, phase, cell, data, bfsQueue, head, row, col, origin, attempts, order, spacing, locals>>

\* the callback of setTimeout, lines 216-220
RecalcTimeout ==
  /\ phase = "page"
  /\ \E i \in 1..Len(tasks) :
       /\ IsTimeout(tasks[i])
       /\ Becomes(requestAnimationFrame(
            [Browser EXCEPT !.tasks = SubSeq(@, 1, i - 1) \o SubSeq(@, i + 1, Len(@)),
                            !.state.currentParams = readParams(dom),
                            !.dom.status = "Computing..."],
            "recalc", Null, 0))
  /\ UNCHANGED <<config, robot, call, ret, memo, history, phase, cell, data, bfsQueue, head, row, col, origin, attempts, order, spacing, locals>>

\* what the callback cb passed to requestAnimationFrame does to b
FrameCallback(b, cb) ==
  CASE cb.fn = "recalc" ->
         IF getViewMode(b.dom) = "range"
         THEN [b EXCEPT !.state.rangeChartData = Computed("computeRangeChart", b.state.currentParams),
                        !.dom.status = "valid, ms"]
         ELSE [b EXCEPT !.state.heatmapData = Computed("computeHeatmap", b.state.currentParams),
                        !.dom.status = "valid, ms"]
    [] cb.fn = "renderAllPanels" ->
         [b EXCEPT !.dom.drawn = IF cb.shot = ReadsState THEN b.state.currentDetailedShot ELSE cb.shot]
    [] cb.fn = "renderer" ->
         [b EXCEPT !.dom.drawn = b.state.currentDetailedShot]

\* the browser runs the oldest callback passed to requestAnimationFrame
AnimationFrame ==
  /\ phase = "page"
  /\ \E i \in 1..Len(tasks) :
       /\ IsFrame(tasks[i])
       /\ \A j \in 1..(i - 1) : ~IsFrame(tasks[j])
       /\ Becomes(FrameCallback([Browser EXCEPT !.tasks = SubSeq(@, 1, i - 1) \o SubSeq(@, i + 1, Len(@))], tasks[i]))
  /\ UNCHANGED <<config, robot, call, ret, memo, history, phase, cell, data, bfsQueue, head, row, col, origin, attempts, order, spacing, locals>>

\* the click listener of the main canvas, for a click on a cell of the
\* active grid that holds a result
CanvasClick ==
  /\ phase = "page"
  /\ Len(tasks) < MaxPending
  /\ Truthy(ActiveGrid(state, dom))
  /\ call' = [fn |-> "computeDetailedShot", result |-> ResultOf(ActiveGrid(state, dom)), params |-> state.currentParams]
  /\ Becomes(openShotModal(Browser, computeDetailedShot(call'.result, call'.params)))
  /\ UNCHANGED <<config, robot, ret, memo, history, phase, cell, data, bfsQueue, head, row, col, origin, attempts, order, spacing, locals>>

\* the click listener of the panels, which the modal shows
PanelClick ==
  /\ phase = "page"
  /\ Len(tasks) < MaxPending
  /\ dom.backdrop = "flex"
  /\ \E panel \in Panels :
       IF dom.panels[panel] = "expanded"
       THEN Becomes(collapseExpandedPanel(Browser))
       ELSE Becomes(expandPanel(Browser, panel))
  /\ UNCHANGED <<config, robot, call, ret, memo, history, phase, cell, data, bfsQueue, head, row, col, origin, attempts, order, spacing, locals>>

\* the click listeners of #shot-modal-close and of the backdrop itself
CloseClick ==
  /\ phase = "page"
  /\ Len(tasks) < MaxPending
  /\ dom.backdrop = "flex"
  /\ Becomes(closeShotModal(Browser))
  /\ UNCHANGED <<config, robot, call, ret, memo, history, phase, cell, data, bfsQueue, head, row, col, origin, attempts, order, spacing, locals>>

\* the keydown listener of the document, e.key === 'Escape'
EscapeKey ==
  /\ phase = "page"
  /\ Len(tasks) < MaxPending
  /\ IF \E p \in Panels : dom.panels[p] = "expanded"
     THEN Becomes(collapseExpandedPanel(Browser))
     ELSE Becomes(closeShotModal(Browser))
  /\ UNCHANGED <<config, robot, call, ret, memo, history, phase, cell, data, bfsQueue, head, row, col, origin, attempts, order, spacing, locals>>

NextPage == SliderInput \/ ViewClick \/ RecalcTimeout \/ AnimationFrame \/ CanvasClick \/ PanelClick \/ CloseClick \/ EscapeKey

\* ------------------------------------------------------------------------
\*  Specifications
\* ------------------------------------------------------------------------

Init == InitSession \/ InitRangeChart \/ InitHeatmap

NextSession == EvaluateShot \/ EvaluateShotWithHint

NextHeatmap == Phase1Seed \/ Phase2Propagate \/ Phase2End \/ Phase3Straggler \/ Phase4Recover

Next == NextSession \/ EvaluateShotAtRange \/ NextHeatmap

Spec == Init /\ [][Next]_vars

SpecHeat == InitHeatmap /\ [][NextHeatmap]_vars

NextOrder == NextHeatmap \/ Restart

SpecOrder == InitOrder /\ [][NextOrder]_vars

SpecSeedSpacing == InitSeedSpacing /\ [][SeedSpacing]_vars

SpecSweep == InitSweep /\ [][SweepSpeedAndAngle]_vars

SpecRefine == InitRefine /\ [][NextRefine]_vars

SpecSimulate == InitSimulate /\ [][NextSimulate]_vars

SpecChart == InitComputeRangeChart /\ [][NextRangeChart]_vars

SpecPage == InitPage /\ [][NextPage]_vars

\* ------------------------------------------------------------------------
\*  Properties of computeHeatmap
\* ------------------------------------------------------------------------

\* the cells <<r, c>> of the grid
Cells == (0..(data.rows - 1)) \X (0..(data.cols - 1))

\* the cells that hold a ShotResult
ValidCells == {rc \in Cells : Truthy(data.results[rc[1]][rc[2]])}

\* the cells a given phase wrote last and left Valid
ValidFrom(ph) == {rc \in ValidCells : origin[rc[1]][rc[2]] = ph}

\* C1: when computeHeatmap returns, validCount is the number of cells of the
\* grid that hold a ShotResult: no Valid cell is counted twice, none is missed
C1_ValidCountIsNumberOfValidCells ==
  phase = "done" /\ data.rows > 0 => data.validCount = Cardinality(ValidCells)

\* a finished grid with Valid cells from a seed, from the propagation and
\* from the neighbor recovery
C1_Witness ==
  /\ phase = "done"
  /\ data.rows > 0
  /\ ValidFrom(1) # {}
  /\ ValidFrom(2) # {}
  /\ ValidFrom(4) # {}
  /\ data.validCount = Cardinality(ValidCells)

\* the cells the seed-and-propagate grid and the exhaustive grid classify
\* differently
Disagreeing(brute) ==
  {rc \in Cells : Truthy(data.results[rc[1]][rc[2]]) # Truthy(brute[rc[1]][rc[2]])}

\* C10: the grid computeHeatmap returns and the grid of evaluateShot called at
\* every cell centre give the same Valid/Invalid classification for at least
\* 99% of the cells
C10_AgreesWithBruteForceOn99Percent ==
  phase = "done" /\ data.rows > 0 =>
    100 * Cardinality(Disagreeing(bruteForce(config))) <= Cardinality(Cells)

\* the lowest apex of a launch whose speed and angle lie within the active
\* bounds: the slowest launch at the flattest angle
MinApex(p) ==
  LET sMin == IF p.speedMode = "fixed" THEN p.fixedSpeed ELSE p.minSpeed
      aMin == IF p.angleMode = "fixed" THEN p.fixedAngle ELSE p.minAngle
      vLaunch == MulS(sMin, Sin(DegToRad(aMin)))
  IN  p.shooterZ + DivS(MulS(vLaunch, vLaunch), 2 * GRAVITY)

\* C11: with the ceiling below the apex of every launch within the active
\* bounds, no phase of computeHeatmap makes a cell Valid and validCount stays 0
C11_NoValidCellUnderLowCeiling ==
  data.rows > 0 /\ config.ceilingHeight < MinApex(config)
    => data.validCount = 0 /\ ValidCells = {}

\* computeHeatmap has returned for a configuration with such a ceiling, after
\* evaluating every cell, and every cell is Invalid
C11_Witness ==
  /\ phase = "done"
  /\ data.rows > 0
  /\ config.ceilingHeight < MinApex(config)
  /\ \A c \in Cells : data.results[c[1]][c[2]] = Null /\ origin[c[1]][c[2]] \in {1, 3}
  /\ data.validCount = 0

\* C13: a neighbour whose hinted evaluation fails in the propagation phase is
\* left not-yet-evaluated: the phase records a cell only when it makes it
\* Valid, so no cell it wrote is Invalid
C13_FailedNeighbourLeftUnresolved ==
  \A c \in Cells : origin[c[1]][c[2]] = 2 => data.results[c[1]][c[2]] # Null

\* the 4-connected neighbours of the cell c, in the order up, down, left, right
Neighbours(c) == <<<<c[1] - 1, c[2]>>, <<c[1] + 1, c[2]>>, <<c[1], c[2] - 1>>, <<c[1], c[2] + 1>>>>

\* the neighbours of c that hold a ShotResult in the grid d
ValidNeighbours(d, c) ==
  {k \in 1..4 : Neighbours(c)[k] \in Cells /\ Truthy(d.results[Neighbours(c)[k][1]][Neighbours(c)[k][2]])}

\* the evaluations of the cell c made by the phase ph
AttemptsIn(ph, c) == {i \in 1..Len(attempts[c[1]][c[2]]) : attempts[c[1]][c[2]][i].phase = ph}

\* C14: when computeHeatmap returns, every Invalid cell with a Valid
\* 4-connected neighbour has had its neighbor-recovery attempt, whichever
\* phase made the neighbour Valid
C14_InvalidBesideValidWasRetried ==
  phase = "done" /\ data.rows > 0
    => \A c \in Cells :
         data.results[c[1]][c[2]] = Null /\ ValidNeighbours(data, c) # {}
           => AttemptsIn(4, c) # {}

\* the evaluations of the cell c made by the seed, propagation and straggler phases
EarlyAttempts(c) == AttemptsIn(1, c) \cup AttemptsIn(2, c) \cup AttemptsIn(3, c)

\* the cells of the seed sub-grid
SeedCells == {c \in Cells : c[1] % seedSpacing(config) = 0 /\ c[2] % seedSpacing(config) = 0}

\* C16: the seed, propagation and straggler phases evaluate every cell exactly
\* once -- a seed by a full evaluation in phase 1, any other cell either by one
\* hinted evaluation in phase 2 or by one full evaluation in phase 3 -- and a
\* cell is Uncomputed only until then: none is when computeHeatmap returns
C16_EveryCellEvaluatedExactlyOnce ==
  data.rows > 0
    => \A c \in Cells :
         /\ Cardinality(EarlyAttempts(c)) <= 1
         /\ data.results[c[1]][c[2]] = UNCOMPUTED <=> EarlyAttempts(c) = {}
         /\ AttemptsIn(1, c) # {} => c \in SeedCells
         /\ phase # "phase1" /\ c \in SeedCells => AttemptsIn(1, c) # {}
         /\ \A i \in AttemptsIn(1, c) \cup AttemptsIn(3, c) : attempts[c[1]][c[2]][i].hint = Null
         /\ \A i \in AttemptsIn(2, c) : Truthy(attempts[c[1]][c[2]][i].hint)
         /\ phase \in {"phase4", "done"}
              => Cardinality(EarlyAttempts(c)) = 1 /\ data.results[c[1]][c[2]] # UNCOMPUTED

\* computeHeatmap has returned a grid with cells evaluated by the seed phase,
\* by the propagation and by the straggler sweep, each exactly once
C16_Witness ==
  /\ phase = "done"
  /\ data.rows > 0
  /\ \A ph \in 1..3 : \E c \in Cells : AttemptsIn(ph, c) # {}
  /\ \A c \in Cells : Cardinality(EarlyAttempts(c)) = 1 /\ data.results[c[1]][c[2]] # UNCOMPUTED

\* the first of the neighbours of c, in the order up, down, left, right, that
\* holds a ShotResult in the grid d
FirstValidNeighbour(d, c) ==
  Neighbours(c)[CHOOSE k \in ValidNeighbours(d, c) : \A j \in ValidNeighbours(d, c) : k <= j]

\* a step of the neighbor-recovery phase at the cell (row, col): it makes at
\* most one evaluation, of that cell, only if the cell is Invalid and has a
\* Valid neighbour, with the result of the first Valid neighbour as the hint
RecoveryStep ==
  LET here == <<row, col>>
      before == attempts[row][col]
      after == attempts'[row][col]
  IN  /\ \A c \in Cells \ {here} :
           /\ attempts'[c[1]][c[2]] = attempts[c[1]][c[2]]
           /\ data'.results[c[1]][c[2]] = data.results[c[1]][c[2]]
      /\ \/ after = before /\ data'.results[row][col] = data.results[row][col]
         \/ /\ data.results[row][col] = Null
            /\ ValidNeighbours(data, here) # {}
            /\ AttemptsIn(4, here) = {}
            /\ after = Append(before, [phase |-> 4,
                   hint |-> data.results[FirstValidNeighbour(data, here)[1]][FirstValidNeighbour(data, here)[2]]])

\* C17: in the neighbor-recovery phase a cell gets at most one hinted attempt,
\* only if it is Invalid when the scan reaches it, with the hint of the first
\* Valid neighbour in the order up, down, left, right and of no other; and a
\* cell that holds a ShotResult is never evaluated again or overwritten
C17_RecoveryTriesFirstValidNeighbourOnce ==
  [][/\ phase = "phase4" => RecoveryStep
     /\ \A c \in Cells :
          Truthy(data.results[c[1]][c[2]])
            => /\ data'.results[c[1]][c[2]] = data.results[c[1]][c[2]]
               /\ attempts'[c[1]][c[2]] = attempts[c[1]][c[2]]]_vars

\* computeHeatmap has returned after a recovery attempt at a cell with two
\* Valid neighbours, made with the hint of the first of them, that failed
C17_Witness ==
  /\ phase = "done"
  /\ data.rows > 0
  /\ \E c \in Cells :
       /\ data.results[c[1]][c[2]] = Null
       /\ Cardinality(ValidNeighbours(data, c)) = 2
       /\ \E i \in AttemptsIn(4, c) :
            attempts[c[1]][c[2]][i].hint
              = data.results[FirstValidNeighbour(data, c)[1]][FirstValidNeighbour(data, c)[2]]

\* C15: whatever the order in which the propagation tries the neighbours of
\* a parent, computeHeatmap returns the same cells Valid as with the order
\* of the code
C15_ClassificationIndependentOfOrder ==
  phase = "done" /\ data.rows > 0 /\ memo # UNCOMPUTED
    => \A c \in Cells : Truthy(data.results[c[1]][c[2]]) <=> Truthy(memo[c[1]][c[2]])

QueueSound ==
  /\ \A i \in 1..Len(bfsQueue) :
       bfsQueue[i] \in Cells /\ Truthy(data.results[bfsQueue[i][1]][bfsQueue[i][2]])
  /\ \A i, j \in 1..Len(bfsQueue) : bfsQueue[i] = bfsQueue[j] => i = j
  /\ Len(bfsQueue) <= data.rows * data.cols
  /\ head <= Len(bfsQueue)

\* a pass of the propagation loop takes the parent at the read index, which
\* holds a ShotResult, and moves the index on by one: the passes still to be
\* made, at most rows * cols - head, become fewer
PropagationAdvances ==
  phase = "phase2" /\ phase' = "phase2"
    => /\ head < Len(bfsQueue)
       /\ Truthy(data.results[bfsQueue[head + 1][1]][bfsQueue[head + 1][2]])
       /\ head' = head + 1
       /\ data.rows * data.cols - head' < data.rows * data.cols - head
       /\ data.rows * data.cols - head' >= 0
       /\ SubSeq(bfsQueue', 1, Len(bfsQueue)) = bfsQueue

\* C19: only Valid cells are put on the propagation queue, each at most once,
\* so the parent taken from it always holds a ShotResult and the queue never
\* holds more than rows * cols entries; and the propagation phase ends, as
\* every pass uses up one of at most rows * cols queue entries
C19_QueueHoldsValidCellsOnceAndDrains ==
  []QueueSound /\ [][PropagationAdvances]_vars

\* the propagation has ended with the queue read to its end, after taking
\* from it cells queued by the seed phase and cells queued by the propagation
C19_Witness ==
  /\ phase = "phase3"
  /\ head = Len(bfsQueue)
  /\ \A ph \in 1..2 : \E i \in 1..Len(bfsQueue) : origin[bfsQueue[i][1]][bfsQueue[i][2]] = ph

\* lines 517-518: sMin, sMax, the active speed bounds
ActiveSpeeds(p) ==
  IF p.speedMode = "fixed" THEN <<p.fixedSpeed, p.fixedSpeed>>
  ELSE <<p.minSpeed, p.maxSpeed>>

\* C24: every Valid cell of the heat map holds a launch speed within the
\* active speed bounds, the cells filled from a neighbour's hint in the
\* propagation and recovery phases included
C24_ValidCellsWithinSpeedBounds ==
  \A c \in ValidCells :
    /\ data.results[c[1]][c[2]].shotSpeed >= ActiveSpeeds(config)[1]
    /\ data.results[c[1]][c[2]].shotSpeed <= ActiveSpeeds(config)[2]

\* a cell is Valid by a hinted evaluation that returned a speed other than
\* its hint's, one of the speeds of the rings around it
C24_Witness ==
  \E c \in ValidCells :
    /\ origin[c[1]][c[2]] \in {2, 4}
    /\ \E i \in AttemptsIn(origin[c[1]][c[2]], c) :
         /\ Truthy(attempts[c[1]][c[2]][i].hint)
         /\ attempts[c[1]][c[2]][i].hint.shotSpeed # data.results[c[1]][c[2]].shotSpeed

\* ------------------------------------------------------------------------
\*  Properties of the solver's entry points
\* ------------------------------------------------------------------------

Solved == call.fn \in {"evaluateShot", "evaluateShotWithHint"}

Charted == call.fn = "evaluateShotAtRange"

\* the configuration the last call solved for: the caller's, with the two
\* velocities of the chart cell in a call of evaluateShotAtRange
CallParams ==
  IF Charted
  THEN [config EXCEPT !.tangentialVelo = call.tangentialVelo, !.radialVelo = call.radialVelo]
  ELSE config

\* the position the last call solved for
CallPosition ==
  IF Charted THEN <<config.targetX + call.range, config.targetY>>
  ELSE <<call.fx, call.fy>>

\* its distance to the target
CallRange == RangeTo(CallPosition[1], CallPosition[2], config)

\* the results the program holds: the one the last call returned and the
\* Valid cells of the heat map, each with the range and configuration of the
\* call that returned it
Results ==
  (IF (Solved \/ Charted) /\ Truthy(ret)
   THEN {[result |-> ret, range |-> CallRange, p |-> CallParams]} ELSE {})
  \cup {[result |-> data.results[rc[1]][rc[2]],
         range |-> RangeTo(CellCentre(rc[2], data.res), CellCentre(rc[1], data.res), config),
         p |-> config] : rc \in ValidCells}

\* C2: every ShotResult returned by evaluateShot, evaluateShotWithHint or
\* evaluateShotAtRange is one validateAndBuildResult built for the range and
\* the configuration of that call, so it passed every gate of the validator,
\* whether or not the Newton refinement converged
C2_ReturnedResultsPassedEveryGate ==
  \A h \in Results :
    /\ h.result.range = h.range
    /\ h.result.heightError <= Tolerance(h.p)
    /\ ~aboveCeiling(h.result.apexHeight, h.p)
    /\ ~tooShallow(h.result.vyAtTarget, h.p)
    /\ ~driftsTooFar(h.result.lateralDrift, h.p)

\* a hinted call returned a result of a refinement that did not converge
\* (its height residual is not below 0.001)
C2_Witness ==
  /\ call.fn = "evaluateShotWithHint"
  /\ Truthy(ret)
  /\ ret.heightError >= Kilo
  /\ ret.range = CallRange

\* C3: a result returned by evaluateShot or evaluateShotWithHint has
\* apexHeight <= ceilingHeight, with and without air drag
C3_ApexBelowCeiling ==
  \A h \in Results : h.result.apexHeight <= h.p.ceilingHeight

\* a result computed with air drag
C3_Witness ==
  /\ config.dragEnabled
  /\ Truthy(ret)
  /\ ret.apexHeight <= config.ceilingHeight
  /\ ret.apexHeight > config.targetZ - Tolerance(config)

\* C4: a result returned by evaluateShot or evaluateShotWithHint has
\* vyAtTarget <= maxVyAtTarget
C4_DescentAtLeastConfigured ==
  \A h \in Results : h.result.vyAtTarget <= h.p.maxVyAtTarget

\* evaluateShot returned a descending shot
C4_Witness ==
  /\ call.fn = "evaluateShot"
  /\ Truthy(ret)
  /\ ret.vyAtTarget <= config.maxVyAtTarget
  /\ config.maxVyAtTarget < 0

\* C5: the height error of every result is at most 0.05 when the angle mode
\* is variable and at most 0.15 when it is fixed, whatever the speed mode
C5_HeightErrorWithinTolerance ==
  \A h \in Results :
    h.result.heightError <= (IF h.p.angleMode = "fixed" THEN 150 * Kilo ELSE 50 * Kilo)

\* a fixed-angle result whose height error is above 0.05
C5_Witness ==
  /\ Solved
  /\ Truthy(ret)
  /\ config.angleMode = "fixed"
  /\ ret.heightError > 50 * Kilo
  /\ ret.heightError <= 150 * Kilo

\* C6: evaluateShot and evaluateShotWithHint return null when the position
\* is less than 0.3 m from the target
C6_TooCloseIsAbsent ==
  Solved /\ CallRange < 300 * Kilo => ret = Null

\* a hinted call from 0.25 m returned null
C6_Witness ==
  /\ call.fn = "evaluateShotWithHint"
  /\ CallRange < 300 * Kilo
  /\ CallRange > 0
  /\ ret = Null

\* C7: evaluateShotAtRange(range, tan, rad, cfg) returns what evaluateShot
\* returns at the position range metres from the target along the firing
\* line, for cfg with tangentialVelo = tan and radialVelo = rad
C7_AtRangeIsEvaluateShotWithOverrides ==
  Charted =>
    ret = Call("evaluateShot", <<config.targetX + call.range, config.targetY,
            [config EXCEPT !.tangentialVelo = call.tangentialVelo, !.radialVelo = call.radialVelo]>>)

\* a chart cell whose radial velocity differs from the configuration's own
\* holds a result
C7_Witness ==
  /\ Charted
  /\ Truthy(ret)
  /\ call.radialVelo # config.radialVelo
  /\ ret.range = call.range

\* C8: no entry point changes the configuration object it is given
C8_ConfigurationNeverMutated == [][config' = config]_vars

\* a chart cell has been evaluated with both velocities overridden, and the
\* caller's configuration still holds its own
C8_Witness ==
  /\ Charted
  /\ call.tangentialVelo # config.tangentialVelo
  /\ call.radialVelo # config.radialVelo
  /\ config \in {ChartConfig(i) : i \in 1..NumChartConfigs}

SameCall(p) ==
  IF call.fn = "evaluateShot" THEN Call("evaluateShot", <<call.fx, call.fy, p>>)
  ELSE Call("evaluateShotWithHint", <<call.fx, call.fy, p, call.hintSpeed, call.hintAngleRad>>)

\* C12: with the cap enabled (maxLateralDrift > 0) every result drifts
\* sideways by at most the cap, to either side; with the cap at 0 the call
\* returns what it returns under a cap no drift can exceed
C12_DriftWithinCapWhenEnabled ==
  /\ \A h \in Results :
       h.p.maxLateralDrift > 0 => Abs(h.result.lateralDrift) <= h.p.maxLateralDrift
  /\ Solved /\ config.maxLateralDrift = 0
       => ret = SameCall([config EXCEPT !.maxLateralDrift = Infinity])

\* under a cap of 0.03 m a hinted call returned a result that drifts by more
\* than half the cap
C12_Witness ==
  /\ call.fn = "evaluateShotWithHint"
  /\ config.maxLateralDrift > 0
  /\ Truthy(ret)
  /\ 2 * Abs(ret.lateralDrift) > config.maxLateralDrift
  /\ Abs(ret.lateralDrift) <= config.maxLateralDrift

\* lines 443-444: aMin, aMax, the active angle bounds in degrees
ActiveAngles(p) ==
  IF p.angleMode = "fixed" THEN <<p.fixedAngle, p.fixedAngle>>
  ELSE <<p.minAngle, p.maxAngle>>

\* the hint of the last call, if it had one, lies within the angle bounds
HintWithinBounds ==
  call.fn = "evaluateShotWithHint" =>
    /\ DegToRad(ActiveAngles(config)[1]) <= call.hintAngleRad
    /\ call.hintAngleRad <= DegToRad(ActiveAngles(config)[2])

\* what converting an angle from degrees to radians and back can add or
\* take away: the rounding of either conversion, seen in degrees
AngleRounding == 2 * RadToDeg(1)

OwnVelocities == {<<0, 0>>, <<2 * One, -One>>}

WithOwnVelocities(p, v) == [p EXCEPT !.tangentialVelo = v[1], !.radialVelo = v[2]]

\* C26: what computeRangeChart puts into a cell of its panels does not
\* depend on the tangentialVelo and radialVelo the configuration carries
\* itself: the cell's result is the result under the same configuration
\* carrying any other velocities
C26_ChartCellIndependentOfOwnVelocities ==
  Charted =>
    \A v \in OwnVelocities :
      ret = Call("evaluateShotAtRange",
                 <<call.range, call.tangentialVelo, call.radialVelo, WithOwnVelocities(config, v)>>).result

\* a Valid cell of the chart of a configuration that carries velocities of
\* its own, other than the cell's
C26_Witness ==
  /\ Charted
  /\ Truthy(ret)
  /\ config.radialVelo # 0
  /\ config.radialVelo # call.radialVelo
  /\ config.tangentialVelo # call.tangentialVelo

\* ------------------------------------------------------------------------
\*  Properties of sweepSpeedAndAngle
\* ------------------------------------------------------------------------

\* the launch at speed v and the given angle for the sweep arguments a: whether
\* the sweep skips it (above the ceiling, or too slow towards the target) and
\* its height error and vertical velocity at the target's range
SweepLaunch(v, angle, a) ==
  LET vVert == MulS(v, Sin(angle))
      apex == a[10] + DivS(MulS(vVert, vVert), 2 * GRAVITY)
      hSpeed == MulS(v, Cos(angle))
      effSpeed == MulS(hSpeed, Cos(Atan2(-a[6], hSpeed))) + a[7]
      t == DivS(a[8], effSpeed)
      h == MulS(vVert, t) - MulS(MulS(GRAVITY \div 2, t), t)
  IN  IF apex > a[11] \/ effSpeed <= One \div 10
      THEN [skipped |-> TRUE, v |-> v, angle |-> angle, err |-> 0, vy |-> 0]
      ELSE [skipped |-> FALSE, v |-> v, angle |-> angle, err |-> Abs(h - a[9]),
            vy |-> vVert - MulS(GRAVITY, t)]

\* the candidates of the whole (speed, angle) grid of the sweep arguments a
SweepGrid(a) ==
  LET minAngle == DegToRad(a[4])
      maxAngle == DegToRad(a[5])
      speedStep == IF a[3] > 1 THEN DivS(a[2] - a[1], (a[3] - 1) * One) ELSE 0
      passes == (maxAngle + Kilo - minAngle) \div angleStep + 1
      all == {SweepLaunch(a[1] + si * speedStep, Min(minAngle + i * angleStep, maxAngle), a) :
                si \in 0..(a[3] - 1), i \in 0..(passes - 1)}
  IN  {c \in all : ~c.skipped}

Descending(c) == c.vy < -500 * Kilo

Viable(c) == Descending(c) /\ c.err < 500 * Kilo

\* the candidate c as the best so far of the sweep
KeptAs(c) == [speed |-> c.v, angle |-> c.angle, error |-> c.err, vy |-> c.vy, found |-> TRUE]

\* C20: sweepSpeedAndAngle returns, of the candidates of the whole grid, the
\* viable one (descending faster than 0.5 m/s, height error under 0.5 m) with
\* the steepest descent if there is a viable one; else the descending one
\* with the lowest height error if there is a descending one; else the one
\* with the lowest height error.  A kept descending candidate is never
\* replaced by a non-descending one, a kept viable one never by a non-viable one
C20_SweepKeepsBestByPolicy ==
  phase = "swept"
    => LET a == SweepInput(config, call.range)
           grid == SweepGrid(a)
           D == {c \in grid : Descending(c)}
           V == {c \in grid : Viable(c)}
           Is(c) == c.v = ret.speed /\ c.angle = ret.angle /\ c.err = ret.error
       IN  /\ V # {} => \E c \in V : Is(c) /\ \A x \in V : c.vy <= x.vy
           /\ V = {} /\ D # {} => \E c \in D : Is(c) /\ \A x \in D : c.err <= x.err
           /\ D = {} /\ grid # {} => \E c \in grid : Is(c) /\ \A x \in grid : c.err <= x.err
           /\ \A kept \in D : \A c \in grid :
                ~Descending(c) \/ (Viable(kept) /\ ~Viable(c))
                  => SweepCandidate(c.v, c.angle, KeptAs(kept), a[6], a[7], a[8], a[9], a[10], a[11]).best
                       = KeptAs(kept)

\* the sweep returned the steepest of several viable candidates, which is not
\* the one with the lowest height error, from a grid that also has
\* descending candidates that are not viable
C20_Witness ==
  /\ phase = "swept"
  /\ LET grid == SweepGrid(SweepInput(config, call.range))
         V == {c \in grid : Viable(c)}
     IN  /\ Cardinality(V) > 1
         /\ \E c \in grid : Descending(c) /\ ~Viable(c)
         /\ \E c \in V : c.err < ret.error
         /\ \E c \in V : c.v = ret.speed /\ c.angle = ret.angle /\ \A x \in V : c.vy <= x.vy

\* ------------------------------------------------------------------------
\*  Properties of refineShot
\* ------------------------------------------------------------------------

Refining == locals.fn = "refineShot"

RefineReturned == Refining /\ locals.pc = "returned"

\* the stepped refineShot returns what the function computes in one piece
RefineAgrees ==
  RefineReturned =>
    ret = refineShot(locals.args[1], locals.args[2], locals.args[3], locals.args[4],
                     locals.args[5], locals.args[6], locals.args[7], locals.args[8],
                     locals.args[9], locals.args[10])

\* C21: when refineShot returns in variable-angle mode it has pushed the
\* angle steeper at most once, and a pass of the refinement has run since the
\* push; in fixed-angle mode it has not pushed and returns the angle it was
\* given
C21_PushedOnceThenRefined ==
  RefineReturned =>
    IF locals.cx.fixedTheta
      THEN locals.pushes = 0 /\ ret.angle = locals.args[2]
      ELSE locals.pushes <= 1 /\ (locals.pushes > 0 => locals.passes > 0)

\* the passes of the inner loop stay within 25 an attempt and 2 attempts
RefineBudget ==
  Refining =>
    /\ locals.attempt <= 2
    /\ locals.i <= 25
    /\ locals.total <= 25 * Min(locals.attempt + 1, 2)

\* the steps refineShot has left at most: the attempts, the passes of the
\* inner loop and the position within a pass
RefineVariant ==
  CASE locals.pc = "returned" -> 0
    [] locals.pc = "return" -> 1
    [] OTHER -> (2 - locals.attempt) * 54 + 2 * (25 - locals.i) + 2
                  + (IF locals.pc = "pass" THEN 1 ELSE 0)

\* a step of refineShot leaves fewer steps to go, and a call that has not
\* returned is at a point where it takes a step
RefineAdvances ==
  Refining =>
    /\ locals.pc \in {"pass", "descent", "return"}
    /\ locals'.pc \in {"pass", "descent", "return", "returned"}
    /\ RefineVariant' < RefineVariant
    /\ RefineVariant' >= 0

\* C22: refineShot never runs more than 2 attempts of 25 passes, a pass
\* spent in the degenerate-geometry guard counted like any other, and every
\* step brings the return nearer, so that every call returns
C22_RefineReturnsWithinBudget == []RefineBudget /\ [][RefineAdvances]_vars

\* a fixed-angle call has returned after 25 passes that all ended in the
\* guard: no residual was ever computed
C22_Witness ==
  /\ RefineReturned
  /\ locals.cx.fixedTheta
  /\ locals.total = 25
  /\ ret.shotTime = 0
  /\ ~Truthy(Residuals(locals.cx, locals.theta, locals.phi))

\* ------------------------------------------------------------------------
\*  Properties of simulateToRange
\* ------------------------------------------------------------------------

Simulating == locals.fn = "simulateToRange"

\* the last step taken ended below the ground, or at or beyond the range
BelowGround == locals.s.z < -locals.args[5]

AtRange == locals.s.x >= locals.args[4]

\* what simulateToRange returns: no solution when the last step ended below
\* the ground, whether or not it passed the range, and when the time ran out
\* short of the range; the interpolated state otherwise
SimOutcome ==
  Simulating /\ locals.s.done =>
    /\ Truthy(locals.s.ret) <=> AtRange /\ ~BelowGround
    /\ BelowGround => locals.s.ret = Null

\* every step adds 2 ms to the time
SimStepsAreFixed == Simulating => locals.s.t = locals.steps * DT

\* a pass of the loop takes the time forward or ends the loop, and a call
\* that has not returned is at a point where it takes a step
SimAdvances ==
  Simulating =>
    /\ locals.pc \in {"loop", "return"}
    /\ locals.pc = "loop" =>
         \/ locals'.pc = "return"
         \/ LessDouble(locals.s.tBits, locals'.s.tBits)
    /\ locals.pc = "return" => locals'.pc = "returned"

\* C25, with the steps the loop takes: simulateToRange always returns; it
\* advances in 2 ms steps and takes at most 2501 of them, the last one
\* starting before 5 s of simulated time and ending after; it returns no
\* solution when the range is not reached by then, as soon as the height
\* falls below the ground, and when one step both falls below the ground and
\* passes the range
C25_SimulationReturnsWithin2501Steps ==
  /\ [](SimOutcome /\ SimStepsAreFixed)
  /\ [](Simulating => locals.steps <= MAX_T \div DT + 1 /\ locals.s.t <= MAX_T + DT)
  /\ [][SimAdvances]_vars

\* a call has returned no solution after 2501 steps, the ball above the
\* ground and short of the range at a simulated time of 5.002 s
C25_Witness ==
  /\ Simulating
  /\ locals.pc = "returned"
  /\ ret = Null
  /\ locals.steps = MAX_T \div DT + 1
  /\ locals.s.t = MAX_T + DT
  /\ ~BelowGround
  /\ ~AtRange

\* C25: simulateToRange always returns; it advances in 2 ms steps and stops
\* after at most 5 s of simulated time, 2500 steps; it returns no solution
\* when the range is not reached by then, as soon as the height falls below
\* the ground, and when one step both falls below the ground and passes the
\* range
C25_SimulationReturnsWithin2500Steps ==
  /\ [](SimOutcome /\ SimStepsAreFixed)
  /\ [](Simulating => locals.steps <= MAX_T \div DT /\ locals.s.t <= MAX_T)
  /\ [][SimAdvances]_vars

\* ------------------------------------------------------------------------
\*  Properties of computeRangeChart
\* ------------------------------------------------------------------------

Charting == locals.fn = "computeRangeChart"

ChartReturned == Charting /\ locals.pc = "returned"

StrictlyAscending(axis) == \A i \in 1..(Len(axis) - 1) : axis[i] < axis[i + 1]

\* the passes of the innermost loop made so far
CellsEvaluated ==
  LET d == locals.data
  IN  (locals.ri * Len(d.tangentials) + locals.ti) * Len(d.distances) + locals.di

\* the triples <<ri, ti, di>> of the axes, from 1
Triples(d) == (1..Len(d.radials)) \X (1..Len(d.tangentials)) \X (1..Len(d.distances))

\* panels holds one panel per radial velocity, one row per tangential
\* velocity in each and one cell per distance in each row
OneCellPerTriple(d) ==
  /\ Len(d.panels) = Len(d.radials)
  /\ \A ri \in 1..Len(d.radials) :
       /\ Len(d.panels[ri]) = Len(d.tangentials)
       /\ \A ti \in 1..Len(d.tangentials) : Len(d.panels[ri][ti]) = Len(d.distances)

ValidTriples(d) == {c \in Triples(d) : Truthy(d.panels[c[1]][c[2]][c[3]])}

\* C27: the chart computeRangeChart returns has exactly one cell for every
\* triple of a radial velocity, a tangential velocity and a distance of its
\* axes, a Valid cell being the result for its own triple; totalCount is the
\* product of the lengths of the axes, validCount the number of Valid cells,
\* which is at most totalCount; each axis is strictly ascending.  While the
\* chart is computed totalCount is the number of cells evaluated.
C27_ChartCoversEveryTripleOnce ==
  Charting /\ locals.pc \in {"rows", "return", "returned"} =>
    LET d == locals.data
    IN  /\ StrictlyAscending(d.distances)
        /\ StrictlyAscending(d.tangentials)
        /\ StrictlyAscending(d.radials)
        /\ d.validCount <= d.totalCount
        /\ locals.pc = "rows" => d.totalCount = CellsEvaluated
        /\ locals.pc = "returned" =>
             /\ OneCellPerTriple(d)
             /\ d.totalCount = Len(d.radials) * Len(d.tangentials) * Len(d.distances)
             /\ d.totalCount = Cardinality(Triples(d))
             /\ d.validCount = Cardinality(ValidTriples(d))
             /\ \A c \in ValidTriples(d) :
                  d.panels[c[1]][c[2]][c[3]] =
                    Call("evaluateShotAtRange",
                         <<d.distances[c[3]], d.tangentials[c[2]], d.radials[c[1]], config>>).result

\* a chart has been returned with Valid and Invalid cells, over axes of 39
\* distances, 11 tangential and 7 radial velocities
C27_Witness ==
  /\ ChartReturned
  /\ Len(locals.data.distances) = 39
  /\ Len(locals.data.tangentials) = 11
  /\ Len(locals.data.radials) = 7
  /\ locals.data.validCount > 0
  /\ locals.data.validCount < locals.data.totalCount

\* ------------------------------------------------------------------------
\*  Properties of the page
\* ------------------------------------------------------------------------

OnPage == phase = "page"

Timeouts == {i \in DOMAIN tasks : IsTimeout(tasks[i])}

RecalcFrames == {i \in DOMAIN tasks : IsFrame(tasks[i]) /\ tasks[i].fn = "recalc"}

\* the grid computeHeatmap or computeRangeChart, whichever the view names,
\* returns for the values the controls have
GridOfControls(d) ==
  Computed(IF getViewMode(d) = "range" THEN "computeRangeChart" ELSE "computeHeatmap", readParams(d))

\* timeouts count twice: each becomes an animation-frame callback
PendingWork == Len(tasks) + Cardinality(Timeouts)

TimerDiscipline ==
  OnPage =>
    /\ Cardinality(Timeouts) <= 1
    /\ \A i \in Timeouts : state.recalcTimer = [tag |-> "object", id |-> tasks[i].id]
    /\ Timeouts # {} => ENABLED RecalcTimeout
    /\ RecalcFrames # {} => ENABLED AnimationFrame
    /\ Timeouts = {} /\ RecalcFrames = {} =>
         /\ state.currentParams = readParams(dom)
         /\ ActiveGrid(state, dom) = GridOfControls(dom)

RecalcSteps ==
  /\ SliderInput \/ ViewClick =>
       /\ Cardinality(Timeouts') = 1
       /\ \A i \in Timeouts' : tasks'[i].id = dom'.timers /\ tasks'[i].id > dom.timers
       /\ Cardinality(RecalcFrames') = Cardinality(RecalcFrames)
  /\ RecalcTimeout =>
       /\ state'.currentParams = readParams(dom)
       /\ Timeouts' = {}
       /\ Cardinality(RecalcFrames') = Cardinality(RecalcFrames) + 1
  /\ AnimationFrame /\ Cardinality(RecalcFrames') < Cardinality(RecalcFrames) =>
       /\ ActiveGrid(state', dom') = Computed(ActiveGrid(state', dom').fn, state.currentParams)
       /\ ActiveGrid(state', dom').fn = GridOfControls(dom).fn
       /\ Timeouts = {} => ActiveGrid(state', dom') = GridOfControls(dom)
  /\ RecalcTimeout \/ AnimationFrame => PendingWork' < PendingWork

\* C28: at most one recalculation timer is pending, and it is the one
\* state.recalcTimer names; a control change leaves exactly one, new, timer
\* pending and adds no recomputation; the timer's callback reads the controls
\* as they are when it fires and requests one recomputation, which computes
\* the grid of the view from those parameters; a pending timer can always
\* fire and a pending recomputation can always run, each such step leaves
\* less pending work, and with no timer and no recomputation pending the grid
\* of the view is the one computed from the values the controls have.
C28_OneTimerLastWriteWins == []TimerDiscipline /\ [][RecalcSteps]_vars

\* two changes were made, the recomputation ran, and nothing is pending
C28_Witness ==
  /\ OnPage
  /\ dom.timers >= 2
  /\ dom.status = "valid, ms"
  /\ Timeouts = {} /\ RecalcFrames = {}
  /\ state.currentParams # PageLoaded("8", "field").state.currentParams
  /\ dom.view = "field"

\* C29: the result the canvas click handler passes to computeDetailedShot
\* was read from a grid computed from the params it passes alongside.
C29_ClickPairsResultWithItsParams ==
  OnPage /\ call.fn = "computeDetailedShot" => call.result.grid.params = call.params

\* C30: every renderer call made from an animation-frame callback of the
\* modal is given a DetailedShot, never null.
C30_DeferredRendersSeeAShot ==
  OnPage => dom.drawn # Null

====
